---- MODULE Spec2Model ----
(***************************************************************************)
(* Model of the deltas.dev environment setup wizard (the setup script with *)
(* configureAdmin .. configureMinIO, generateNginxConf,                    *)
(* generateDockerCompose, generateEnvFile, saveFiles and main).            *)
(*                                                                         *)
(* Text.  A JavaScript string is a sequence of atoms.  An atom is either   *)
(* one of the distinguished characters below (the ones parseEnvFile's      *)
(* regular expression, trim(), split() and the port syntax look at) or a   *)
(* non-empty run of ordinary characters, which behaves like one ordinary   *)
(* character for every test the program makes.  Text typed by the operator *)
(* for a password is written one character per atom, so that Len is the    *)
(* string's length.                                                        *)
(***************************************************************************)
EXTENDS Naturals, Sequences, FiniteSets, TLC

DQ == "\""
SQ == "'"
EQ == "="
HASH == "#"
SP == " "
NL == "\n"
COLON == ":"
AT == "@"
SLASH == "/"

Empty == <<>>

\* JavaScript `a || b` on strings: the empty string and undefined are falsy.
OrElse(a, b) == IF a # Empty THEN a ELSE b

\* obj?.KEY on a Record<string,string>: Empty stands for undefined.
Get(obj, key) == IF key \in DOMAIN obj THEN obj[key] ELSE Empty

\* `${obj.KEY}` inside a template literal: undefined prints as "undefined".
Tpl(obj, key) == IF key \in DOMAIN obj THEN obj[key] ELSE <<"undefined">>

NoEnv == [k \in {} |-> Empty]

Min(S) == CHOOSE x \in S : \A y \in S : x <= y
Max(S) == CHOOSE x \in S : \A y \in S : x >= y

\* String.prototype.includes for an atom.
Includes(text, atom) == \E i \in 1..Len(text) : text[i] = atom

\* Array.prototype.join("\n"), joining the two halves of the array.
RECURSIVE Join(_)
Join(lines) ==
    IF lines = <<>> THEN Empty
    ELSE IF Len(lines) = 1 THEN lines[1]
    ELSE LET half == Len(lines) \div 2
         IN  Join(SubSeq(lines, 1, half)) \o <<NL>>
             \o Join(SubSeq(lines, half + 1, Len(lines)))

\* String.prototype.split("\n"), splitting at the middle "\n" first.
RECURSIVE Split(_)
Split(text) ==
    LET nls == {i \in 1..Len(text) : text[i] = NL}
    IN  IF nls = {} THEN <<text>>
        ELSE LET i == CHOOSE n \in nls :
                          Cardinality({m \in nls : m < n}) = Cardinality(nls) \div 2
             IN  Split(SubSeq(text, 1, i - 1)) \o Split(SubSeq(text, i + 1, Len(text)))

IsSpace(a) == a \in {SP, "\t", "\r"}
IsQuote(a) == a \in {DQ, SQ}

\* String.prototype.trim()
Trim(text) ==
    LET keep == {i \in 1..Len(text) : ~IsSpace(text[i])}
    IN  IF keep = {} THEN Empty ELSE SubSeq(text, Min(keep), Max(keep))

\* trimmed.match(/^([^=]+)=["']?([^"']*)["']?$/): group 1 is everything before
\* the first "=", and must not be empty; of the rest an opening and a closing
\* quote character are dropped when present, and what is left must hold no
\* quote character.
EnvLineMatch(trimmed) ==
    LET eqs  == {i \in 1..Len(trimmed) : trimmed[i] = EQ}
        i    == IF eqs = {} THEN 0 ELSE Min(eqs)
        rest == IF i = 0 THEN Empty ELSE SubSeq(trimmed, i + 1, Len(trimmed))
        r1   == IF rest # Empty /\ IsQuote(rest[1]) THEN Tail(rest) ELSE rest
        r2   == IF r1 # Empty /\ IsQuote(r1[Len(r1)]) THEN SubSeq(r1, 1, Len(r1) - 1) ELSE r1
    IN  [ok    |-> i > 1 /\ \A j \in 1..Len(r2) : ~IsQuote(r2[j]),
         key   |-> IF i > 1 THEN SubSeq(trimmed, 1, i - 1) ELSE Empty,
         value |-> r2]

\* The body of parseEnvFile's loop, for one line.
ParseLine(env, line) ==
    LET trimmed == Trim(line)
    IN  IF trimmed = Empty \/ trimmed[1] = HASH THEN env
        ELSE LET m == EnvLineMatch(trimmed)
             IN  IF m.ok THEN (m.key :> m.value) @@ env ELSE env

\* The loop of parseEnvFile over lines[lo..hi], starting from env = {}: an
\* assignment made by a later line replaces the one made by an earlier line.
RECURSIVE ParseLines(_, _, _)
ParseLines(lines, lo, hi) ==
    IF lo > hi THEN NoEnv
    ELSE IF lo = hi THEN ParseLine(NoEnv, lines[lo])
    ELSE LET mid == (lo + hi) \div 2
         IN  ParseLines(lines, mid + 1, hi) @@ ParseLines(lines, lo, mid)

\* Parse .env
parseEnvFile(content) ==
    LET lines == Split(content)
    IN  ParseLines(lines, 1, Len(lines))

(***************************************************************************)
(* The topology model: interface ServiceConfig and interface EnvConfig.    *)
(* An absent service (an omitted optional field) is a record with          *)
(* present = FALSE, so that `config.services.x?.enabled` is Enabled(x).    *)
(***************************************************************************)
Absent == [present |-> FALSE, enabled |-> FALSE, exposed |-> FALSE, config |-> NoEnv]

ServiceConfig(enabled, exposed, config) ==
    [present |-> TRUE, enabled |-> enabled, exposed |-> exposed, config |-> config]

Enabled(svc) == svc.present /\ svc.enabled

\* One line KEY="value" of the .env document.
EnvLine(key, value) == <<key, EQ, DQ>> \o value \o <<DQ>>

\* A "# ..." comment line of the .env document.
RECURSIVE Words(_)
Words(ws) == IF ws = <<>> THEN Empty ELSE <<SP, Head(ws)>> \o Words(Tail(ws))
Comment(ws) == <<HASH>> \o Words(ws)

RedisLocalUrl == <<"redis", COLON, "//", "redis", COLON, "6379">>
MinioLocalEndpoint == <<"http", COLON, "//", "minio", COLON, "9000">>

\* A Redis section that is left out when Redis was skipped: EnvKeySet does
\* not hold of it.
EnvRedisLinesIfAny(redis) ==
    IF Enabled(redis) THEN <<EnvLine("REDIS_URL", RedisLocalUrl)>>
    ELSE IF redis.present /\ Get(redis.config, "REDIS_URL") # Empty
         THEN <<EnvLine("REDIS_URL", redis.config.REDIS_URL)>>
    ELSE <<>>

EnvRedisLines(redis) ==
    IF Enabled(redis) THEN <<EnvLine("REDIS_URL", RedisLocalUrl)>>
    ELSE IF redis.present /\ Get(redis.config, "REDIS_URL") # Empty
         THEN <<EnvLine("REDIS_URL", redis.config.REDIS_URL)>>
    ELSE <<EnvLine("REDIS_URL", Empty)>>

EnvClickHouseLines(ch) ==
    IF Enabled(ch) THEN
        << EnvLine("CLICKHOUSE_HOST", <<"clickhouse">>),
           EnvLine("CLICKHOUSE_PORT", <<"8123">>),
           EnvLine("CLICKHOUSE_NATIVE_PORT", <<"19000">>),
           EnvLine("CLICKHOUSE_USER", <<"default">>),
           EnvLine("CLICKHOUSE_PASSWORD", Tpl(ch.config, "CLICKHOUSE_PASSWORD")),
           EnvLine("CLICKHOUSE_DATABASE", <<"default">>) >>
    ELSE IF ch.present THEN
        << EnvLine("CLICKHOUSE_HOST", Tpl(ch.config, "CLICKHOUSE_HOST")),
           EnvLine("CLICKHOUSE_PORT", Tpl(ch.config, "CLICKHOUSE_PORT")),
           EnvLine("CLICKHOUSE_NATIVE_PORT", Tpl(ch.config, "CLICKHOUSE_NATIVE_PORT")),
           EnvLine("CLICKHOUSE_USER", Tpl(ch.config, "CLICKHOUSE_USER")),
           EnvLine("CLICKHOUSE_PASSWORD", Tpl(ch.config, "CLICKHOUSE_PASSWORD")),
           EnvLine("CLICKHOUSE_DATABASE", Tpl(ch.config, "CLICKHOUSE_DATABASE")) >>
    ELSE
        << EnvLine("CLICKHOUSE_HOST", Empty),
           EnvLine("CLICKHOUSE_PORT", Empty),
           EnvLine("CLICKHOUSE_NATIVE_PORT", Empty),
           EnvLine("CLICKHOUSE_USER", Empty),
           EnvLine("CLICKHOUSE_PASSWORD", Empty),
           EnvLine("CLICKHOUSE_DATABASE", Empty) >>

EnvMinioLines(minio) ==
    IF Enabled(minio) THEN
        << EnvLine("S3_ENDPOINT", MinioLocalEndpoint),
           EnvLine("S3_ACCESS_KEY", Tpl(minio.config, "S3_ACCESS_KEY")),
           EnvLine("S3_SECRET_KEY", Tpl(minio.config, "S3_SECRET_KEY")),
           EnvLine("S3_BUCKET", Tpl(minio.config, "S3_BUCKET")) >>
    ELSE IF minio.present THEN
        << EnvLine("S3_ENDPOINT", Tpl(minio.config, "S3_ENDPOINT")),
           EnvLine("S3_ACCESS_KEY", Tpl(minio.config, "S3_ACCESS_KEY")),
           EnvLine("S3_SECRET_KEY", Tpl(minio.config, "S3_SECRET_KEY")),
           EnvLine("S3_BUCKET", Tpl(minio.config, "S3_BUCKET")) >>
    ELSE
        << EnvLine("S3_ENDPOINT", Empty),
           EnvLine("S3_ACCESS_KEY", Empty),
           EnvLine("S3_SECRET_KEY", Empty),
           EnvLine("S3_BUCKET", Empty) >>

\* A generateEnvFile without its PostgreSQL section: ApiBehindNginxScenario
\* does not hold of it.
EnvPostgresLinesOmitted(pg) == <<>>

EnvPostgresLines(pg) ==
    IF Enabled(pg) THEN
        << Comment(<<"PostgreSQL">>),
           EnvLine("POSTGRES_USER", Tpl(pg.config, "POSTGRES_USER")),
           EnvLine("POSTGRES_PASSWORD", Tpl(pg.config, "POSTGRES_PASSWORD")),
           EnvLine("POSTGRES_DB", Tpl(pg.config, "POSTGRES_DB")),
           Empty >>
    ELSE <<>>

\* Generate .env: the lines pushed, in order.
EnvFileLines(config) ==
    << Comment(<<"Deltas", "Configuration">>),
       Comment(<<"Generated", "by", "Deltas", "Setup", "Wizard">>),
       Empty,
       Comment(<<"Drizzle">>),
       EnvLine("DATABASE_URL", config.databaseUrl),
       Empty,
       Comment(<<"Application">>),
       EnvLine("ORIGIN", config.origin),
       Empty,
       Comment(<<"Better", "Auth">>),
       EnvLine("BETTER_AUTH_SECRET", config.betterAuthSecret),
       Empty,
       Comment(<<"Admin", "User">>),
       EnvLine("ADMIN_EMAIL", config.adminEmail),
       EnvLine("ADMIN_PASSWORD", config.adminPassword),
       Empty,
       Comment(<<"Organization">>),
       EnvLine("ORG_NAME", config.orgName),
       Empty,
       Comment(<<"Redis">>) >>
    \o EnvRedisLines(config.services.redis)
    \o << Empty, Comment(<<"ClickHouse">>) >>
    \o EnvClickHouseLines(config.services.clickhouse)
    \o << Empty, Comment(<<"MinIO", "(S3)">>) >>
    \o EnvMinioLines(config.services.minio)
    \o << Empty,
          Comment(<<"Mailpit", "(SMTP)">>),
          EnvLine("SMTP_HOST", config.smtpHost),
          EnvLine("SMTP_PORT", config.smtpPort),
          EnvLine("SMTP_FROM", config.smtpFrom),
          EnvLine("SMTP_USER", config.smtpUser),
          EnvLine("SMTP_PASSWORD", config.smtpPassword),
          Empty >>
    \o EnvPostgresLines(config.services.postgres)

generateEnvFile(config) == Join(EnvFileLines(config))

(***************************************************************************)
(* generateDockerCompose.  The YAML text is modelled by its structure: the *)
(* sequence of service blocks pushed onto `services`, each with its name,  *)
(* port mappings (texts, as written between the quotes), mounts,           *)
(* depends_on entries and env_file, and the top-level volumes pushed onto  *)
(* `volumes`.                                                              *)
(***************************************************************************)
Loopback == <<"127.0.0.1", COLON>>

\* exposed ? "HOST:CONTAINER" : "127.0.0.1:HOST:CONTAINER"
PortMapping(exposed, hostPort, containerPort) ==
    IF exposed THEN hostPort \o <<COLON>> \o containerPort
    ELSE Loopback \o hostPort \o <<COLON>> \o containerPort

Mount(source, target) == [source |-> source, target |-> target]

Block(name, container, ports, mounts, deps, envFile) ==
    [name |-> name, container_name |-> container, ports |-> ports,
     volumes |-> mounts, depends_on |-> deps, env_file |-> envFile]

\* A depends_on entry that is written whether or not the service is enabled:
\* ComposeDependencyEdges does not hold of it.
DepAlways(cond, name) == <<name>>

\* [cond && 'name', ...].filter(Boolean) and the '- name' template pieces.
Dep(cond, name) == IF cond THEN <<name>> ELSE <<>>

NginxBlock(config) ==
    Block("nginx", "deltas-nginx",
          << <<"80", COLON, "80">>, <<"443", COLON, "443">> >>,
          << Mount("./nginx.conf", "/etc/nginx/nginx.conf"),
             Mount("nginx_logs", "/var/log/nginx") >>,
          Dep(Enabled(config.services.api), "api")
              \o Dep(Enabled(config.services.app), "app"),
          <<>>)

ApiBlock(config) ==
    LET api     == config.services.api
        apiPort == OrElse(Get(api.config, "API_PORT"), <<"3000">>)
    IN  Block("api", "deltas-api",
              << PortMapping(api.exposed, apiPort, <<"3000">>) >>,
              <<>>,
              Dep(Enabled(config.services.postgres), "db")
                  \o Dep(Enabled(config.services.redis), "redis")
                  \o Dep(Enabled(config.services.clickhouse), "clickhouse"),
              <<"./deltas/.env">>)

AppBlock(config) ==
    LET app     == config.services.app
        appPort == OrElse(Get(app.config, "APP_PORT"), <<"5173">>)
    IN  Block("app", "deltas-app",
              << PortMapping(app.exposed, appPort, <<"5173">>) >>,
              <<>>,
              Dep(Enabled(config.services.api), "api"),
              <<"./app/.env">>)

PostgresBlock(config) ==
    Block("db", "deltas-postgres",
          << PortMapping(config.services.postgres.exposed, <<"5432">>, <<"5432">>) >>,
          << Mount("pgdata", "/var/lib/postgresql/data") >>,
          <<>>, <<>>)

RedisBlock(config) ==
    Block("redis", "deltas-redis",
          << PortMapping(config.services.redis.exposed, <<"6379">>, <<"6379">>) >>,
          << Mount("redis_data", "/data") >>,
          <<>>, <<>>)

ClickHouseBlock(config) ==
    Block("clickhouse", "deltas-clickhouse",
          << PortMapping(config.services.clickhouse.exposed, <<"8123">>, <<"8123">>),
             PortMapping(config.services.clickhouse.exposed, <<"19000">>, <<"9000">>) >>,
          << Mount("clickhouse_data", "/var/lib/clickhouse"),
             Mount("clickhouse_logs", "/var/log/clickhouse-server") >>,
          <<>>, <<>>)

MinioBlock(config) ==
    Block("minio", "deltas-minio",
          << PortMapping(config.services.minio.exposed, <<"9000">>, <<"9000">>),
             PortMapping(config.services.minio.exposed, <<"9001">>, <<"9001">>) >>,
          << Mount("minio_data", "/data") >>,
          <<>>, <<>>)

\* A push that is not guarded by the service's enabled flag:
\* ComposeServiceBlocks does not hold of it.
PushAlways(cond, item) == <<item>>

\* if (config.services.x?.enabled) services.push(block)
Push(cond, item) == IF cond THEN <<item>> ELSE <<>>

\* A volumes section that leaves out the log volume of ClickHouse:
\* ComposeVolumeDeclarations does not hold of it.
ComposeVolumesWithoutLogs(config) ==
    Push(Enabled(config.services.nginx), "nginx_logs")
    \o Push(Enabled(config.services.postgres), "pgdata")
    \o Push(Enabled(config.services.redis), "redis_data")
    \o Push(Enabled(config.services.clickhouse), "clickhouse_data")
    \o Push(Enabled(config.services.minio), "minio_data")

ComposeVolumes(config) ==
    Push(Enabled(config.services.nginx), "nginx_logs")
    \o Push(Enabled(config.services.postgres), "pgdata")
    \o Push(Enabled(config.services.redis), "redis_data")
    \o (IF Enabled(config.services.clickhouse)
        THEN <<"clickhouse_data", "clickhouse_logs">> ELSE <<>>)
    \o Push(Enabled(config.services.minio), "minio_data")

generateDockerCompose(config) ==
    [services |->
        Push(Enabled(config.services.nginx), NginxBlock(config))
        \o Push(Enabled(config.services.api), ApiBlock(config))
        \o Push(Enabled(config.services.app), AppBlock(config))
        \o Push(Enabled(config.services.postgres), PostgresBlock(config))
        \o Push(Enabled(config.services.redis), RedisBlock(config))
        \o Push(Enabled(config.services.clickhouse), ClickHouseBlock(config))
        \o Push(Enabled(config.services.minio), MinioBlock(config)),
     networks |-> <<"deltas-network">>,
     volumesSection |-> Len(ComposeVolumes(config)) > 0,
     volumes |-> ComposeVolumes(config)]

(***************************************************************************)
(* generateNginxConf.  The configuration text is modelled by its           *)
(* structure: the upstream blocks and the server blocks of the http         *)
(* section, in the order the template places them.                          *)
(***************************************************************************)
Upstream(name, host, port, keepalive) ==
    [name |-> name, server |-> <<host, COLON, port>>, keepalive |-> keepalive]

Listen(port, ssl) == [port |-> port, ssl |-> ssl]

\* A template whose every location passes to the API upstream: NginxRouting
\* does not hold of it.
LocationToApi(match, proxyPass, ret) ==
    [match |-> match, proxy_pass |-> "http://api", return |-> ret]

Location(match, proxyPass, ret) == [match |-> match, proxy_pass |-> proxyPass, return |-> ret]

Server(listen, sslCertificate, serverName, ret, locations) ==
    [listen |-> listen, ssl_certificate |-> sslCertificate, server_name |-> serverName,
     return |-> ret, locations |-> locations]

NginxDomain(config) ==
    IF config.services.nginx.present
    THEN OrElse(Get(config.services.nginx.config, "DOMAIN"), <<"localhost">>)
    ELSE <<"localhost">>

\* A template that turns SSL on for every domain other than localhost:
\* RedirectHost does not hold of it.
SslForEveryDomain(config) == NginxDomain(config) # <<"localhost">>

NginxSslEnabled(config) ==
    config.services.nginx.present
        /\ Get(config.services.nginx.config, "SSL_ENABLED") = <<"true">>

generateNginxConf(config) ==
    LET domain     == NginxDomain(config)
        sslEnabled == NginxSslEnabled(config)
        hasApi     == Enabled(config.services.api)
        hasApp     == Enabled(config.services.app)
        httpRedirect ==
            Push(sslEnabled,
                 Server(<<Listen("80", FALSE), Listen("[::]:80", FALSE)>>, "", domain,
                        "301 https://$server_name$request_uri", <<>>))
        main ==
            Server(IF sslEnabled
                   THEN <<Listen("443", TRUE), Listen("[::]:443", TRUE)>>
                   ELSE <<Listen("80", FALSE), Listen("[::]:80", FALSE)>>,
                   IF sslEnabled THEN "/etc/nginx/ssl/cert.pem" ELSE "",
                   domain, "",
                   Push(hasApi, Location("~ ^/(post|get)/", "http://api", ""))
                   \o Push(hasApp, Location("/", "http://app", ""))
                   \o <<Location("/health", "", "200")>>)
    IN  [upstreams |-> Push(hasApi, Upstream("api", "api", "3000", "64"))
                       \o Push(hasApp, Upstream("app", "app", "5173", "32")),
         servers   |-> httpRedirect \o <<main>>]

(***************************************************************************)
(* The Collector: the prompts of @inquirer/prompts and the configure*      *)
(* functions, as functions of what the operator types.                     *)
(***************************************************************************)
Yes == <<"yes">>
No == <<"no">>
Local == <<"local">>
Hosted == <<"hosted">>
Skip == <<"skip">>
CtrlC == <<"^C">>
YesNo == {Yes, No}

\* input({ default }): an empty entry takes the default.
Input(typed, default) == OrElse(typed, default)

\* One prompt shown to the operator, with the answer given.  The id is the
\* prompt's message, cut at its first parenthesis and prefixed with the
\* service where several prompts have the same message.
P(id, answer) == [id |-> id, answer |-> answer]

\* existingEnv?.KEY on the parsed .env (keys are texts of one atom).
EnvGet(env, key) == IF <<key>> \in DOMAIN env THEN env[<<key>>] ELSE Empty

\* configureAdmin: the validate callbacks.
EmailValid(value) == Includes(value, AT)

MinPasswordLength == 8

\* A password prompt without a validate callback: AdminPasswordResolution
\* does not hold of it.
PasswordUnchecked(value, existingEnv) == TRUE

PasswordValid(value, existingEnv) ==
    /\ ~(value = Empty /\ EnvGet(existingEnv, "ADMIN_PASSWORD") = Empty)
    /\ ~(value # Empty /\ Len(value) < MinPasswordLength)

AdminEmail(existingEnv, a) ==
    Input(a.email, OrElse(EnvGet(existingEnv, "ADMIN_EMAIL"), <<"admin", AT, "deltas.email">>))

configureAdmin(existingEnv, a) ==
    [email    |-> AdminEmail(existingEnv, a),
     password |-> OrElse(a.password,
                         OrElse(EnvGet(existingEnv, "ADMIN_PASSWORD"), <<"StrongPassword123">>)),
     orgName  |-> Input(a.orgName, OrElse(EnvGet(existingEnv, "ORG_NAME"), <<"Deltas">>))]

AdminPrompts(a) ==
    << P("Admin email:", a.email), P("Admin password:", a.password),
       P("Organization name:", a.orgName) >>

\* configureSMTP
configureSMTP(existingEnv, a) ==
    IF a.configure = No THEN
        [host     |-> EnvGet(existingEnv, "SMTP_HOST"),
         port     |-> EnvGet(existingEnv, "SMTP_PORT"),
         from     |-> EnvGet(existingEnv, "SMTP_FROM"),
         user     |-> EnvGet(existingEnv, "SMTP_USER"),
         password |-> EnvGet(existingEnv, "SMTP_PASSWORD")]
    ELSE
        [host     |-> Input(a.host, OrElse(EnvGet(existingEnv, "SMTP_HOST"), <<"localhost">>)),
         port     |-> Input(a.port, OrElse(EnvGet(existingEnv, "SMTP_PORT"), <<"1025">>)),
         from     |-> Input(a.from, OrElse(EnvGet(existingEnv, "SMTP_FROM"),
                                           <<"noreply", AT, "localhost">>)),
         user     |-> Input(a.user, EnvGet(existingEnv, "SMTP_USER")),
         password |-> OrElse(a.password, EnvGet(existingEnv, "SMTP_PASSWORD"))]

SMTPPrompts(a) ==
    <<P("Configure SMTP settings?", a.configure)>>
    \o (IF a.configure = No THEN <<>>
        ELSE << P("SMTP host:", a.host), P("SMTP port:", a.port),
                P("From email address:", a.from), P("SMTP username:", a.user),
                P("SMTP password:", a.password) >>)

\* configureDeltasAPI
configureDeltasAPI(existingEnv, a) ==
    IF a.enabled = No THEN Absent
    ELSE ServiceConfig(TRUE, TRUE,
            [API_PORT |-> Input(a.port, OrElse(EnvGet(existingEnv, "API_PORT"), <<"3000">>))])

DeltasAPIPrompts(a) ==
    <<P("Deploy Deltas Ingestion server?", a.enabled)>>
    \o (IF a.enabled = No THEN <<>> ELSE <<P("API port:", a.port)>>)

\* configureDeltasApp
configureDeltasApp(existingEnv, a) ==
    IF a.enabled = No THEN Absent
    ELSE ServiceConfig(TRUE, TRUE,
            [APP_PORT |-> Input(a.port, OrElse(EnvGet(existingEnv, "APP_PORT"), <<"5173">>))])

DeltasAppPrompts(a) ==
    <<P("Deploy Deltas App ?", a.enabled)>>
    \o (IF a.enabled = No THEN <<>> ELSE <<P("App port:", a.port)>>)

\* A configureNginx without its first line, which asks about Nginx whatever
\* was deployed: NginxInclusion does not hold of it.
NginxPromptAlways(hasApi, hasApp) == TRUE

\* A configureNginx that asks about SSL whatever the domain: SslGating does
\* not hold of it.
SslAlwaysAsked(domain) == TRUE

\* configureNginx
NginxPromptShown(hasApi, hasApp) == hasApi \/ hasApp

NginxSslAsked(domain) == domain # Empty

configureNginx(hasApi, hasApp, a) ==
    IF ~NginxPromptShown(hasApi, hasApp) THEN Absent
    ELSE IF a.enabled = No THEN Absent
    ELSE LET domain     == Input(a.domain, Empty)
             sslEnabled == IF NginxSslAsked(domain) THEN a.ssl = Yes ELSE FALSE
         IN  ServiceConfig(TRUE, TRUE,
                [DOMAIN      |-> OrElse(domain, <<"localhost">>),
                 SSL_ENABLED |-> IF sslEnabled THEN <<"true">> ELSE <<"false">>])

NginxPrompts(hasApi, hasApp, a) ==
    IF ~NginxPromptShown(hasApi, hasApp) THEN <<>>
    ELSE <<P("Deploy Nginx reverse proxy?", a.enabled)>>
         \o (IF a.enabled = No THEN <<>>
             ELSE <<P("Domain name:", a.domain)>>
                  \o (IF NginxSslAsked(Input(a.domain, Empty))
                      THEN <<P("Enable SSL/TLS (HTTPS)?", a.ssl)>> ELSE <<>>))

\* configurePostgres
configurePostgres(existingEnv, a) ==
    IF a.deployment = Skip THEN Absent
    ELSE IF a.deployment = Local THEN
        ServiceConfig(TRUE, a.exposed = Yes,
            [POSTGRES_USER     |-> Input(a.user, OrElse(EnvGet(existingEnv, "POSTGRES_USER"),
                                                        <<"root">>)),
             POSTGRES_PASSWORD |-> OrElse(a.password,
                                          OrElse(EnvGet(existingEnv, "POSTGRES_PASSWORD"),
                                                 <<"mysecretpassword">>)),
             POSTGRES_DB       |-> Input(a.db, OrElse(EnvGet(existingEnv, "POSTGRES_DB"),
                                                      <<"deltas">>))])
    ELSE
        ServiceConfig(FALSE, FALSE,
            [DATABASE_URL |-> Input(a.url,
                OrElse(EnvGet(existingEnv, "DATABASE_URL"),
                       <<"postgres", COLON, "//", "user", COLON, "pass", AT,
                         "host", COLON, "5432", SLASH, "db">>))])

PostgresPrompts(a) ==
    <<P("PostgreSQL deployment:", a.deployment)>>
    \o (IF a.deployment = Skip THEN <<>>
        ELSE IF a.deployment = Local
        THEN << P("Postgres username:", a.user), P("Postgres password:", a.password),
                P("Database name:", a.db), P("Expose Postgres to internet?", a.exposed) >>
        ELSE <<P("Postgres connection URL:", a.url)>>)

\* configureRedis
configureRedis(existingEnv, a) ==
    IF a.deployment = Skip THEN Absent
    ELSE IF a.deployment = Local THEN ServiceConfig(TRUE, a.exposed = Yes, NoEnv)
    ELSE ServiceConfig(FALSE, FALSE,
            [REDIS_URL |-> Input(a.url,
                OrElse(EnvGet(existingEnv, "REDIS_URL"),
                       <<"redis", COLON, "//", "localhost", COLON, "6379">>))])

RedisPrompts(a) ==
    <<P("Redis deployment:", a.deployment)>>
    \o (IF a.deployment = Skip THEN <<>>
        ELSE IF a.deployment = Local THEN <<P("Expose Redis to internet?", a.exposed)>>
        ELSE <<P("Redis connection URL:", a.url)>>)

\* configureClickHouse
configureClickHouse(existingEnv, a) ==
    IF a.deployment = Skip THEN Absent
    ELSE IF a.deployment = Local THEN
        ServiceConfig(TRUE, a.exposed = Yes,
            [CLICKHOUSE_PASSWORD |-> OrElse(a.password,
                                            OrElse(EnvGet(existingEnv, "CLICKHOUSE_PASSWORD"),
                                                   <<"clickhouse">>))])
    ELSE
        ServiceConfig(FALSE, FALSE,
            [CLICKHOUSE_HOST        |-> Input(a.host, OrElse(EnvGet(existingEnv, "CLICKHOUSE_HOST"),
                                                             <<"localhost">>)),
             CLICKHOUSE_PORT        |-> Input(a.port, OrElse(EnvGet(existingEnv, "CLICKHOUSE_PORT"),
                                                             <<"8123">>)),
             CLICKHOUSE_NATIVE_PORT |-> Input(a.nativePort,
                                              OrElse(EnvGet(existingEnv, "CLICKHOUSE_NATIVE_PORT"),
                                                     <<"19000">>)),
             CLICKHOUSE_USER        |-> Input(a.user, OrElse(EnvGet(existingEnv, "CLICKHOUSE_USER"),
                                                             <<"default">>)),
             CLICKHOUSE_PASSWORD    |-> OrElse(a.password,
                                               EnvGet(existingEnv, "CLICKHOUSE_PASSWORD")),
             CLICKHOUSE_DATABASE    |-> Input(a.db, OrElse(EnvGet(existingEnv, "CLICKHOUSE_DATABASE"),
                                                           <<"default">>))])

ClickHousePrompts(a) ==
    <<P("ClickHouse deployment:", a.deployment)>>
    \o (IF a.deployment = Skip THEN <<>>
        ELSE IF a.deployment = Local
        THEN << P("ClickHouse password:", a.password),
                P("Expose ClickHouse to internet?", a.exposed) >>
        ELSE << P("ClickHouse host:", a.host), P("ClickHouse HTTP port:", a.port),
                P("ClickHouse native port:", a.nativePort), P("ClickHouse user:", a.user),
                P("ClickHouse password:", a.password), P("ClickHouse database:", a.db) >>)

\* configureMinIO
configureMinIO(existingEnv, a) ==
    IF a.deployment = Skip THEN Absent
    ELSE IF a.deployment = Local THEN
        ServiceConfig(TRUE, a.exposed = Yes,
            [S3_ACCESS_KEY |-> Input(a.accessKey, OrElse(EnvGet(existingEnv, "S3_ACCESS_KEY"),
                                                         <<"minioadmin">>)),
             S3_SECRET_KEY |-> OrElse(a.secretKey, OrElse(EnvGet(existingEnv, "S3_SECRET_KEY"),
                                                          <<"minioadmin">>)),
             S3_BUCKET     |-> Input(a.bucket, OrElse(EnvGet(existingEnv, "S3_BUCKET"),
                                                      <<"deltas-bucket">>))])
    ELSE
        ServiceConfig(FALSE, FALSE,
            [S3_ENDPOINT   |-> Input(a.endpoint, OrElse(EnvGet(existingEnv, "S3_ENDPOINT"),
                                        <<"https", COLON, "//", "s3.amazonaws.com">>)),
             S3_ACCESS_KEY |-> Input(a.accessKey, EnvGet(existingEnv, "S3_ACCESS_KEY")),
             S3_SECRET_KEY |-> OrElse(a.secretKey, EnvGet(existingEnv, "S3_SECRET_KEY")),
             S3_BUCKET     |-> Input(a.bucket, EnvGet(existingEnv, "S3_BUCKET"))])

MinIOPrompts(a) ==
    <<P("MinIO/S3 deployment:", a.deployment)>>
    \o (IF a.deployment = Skip THEN <<>>
        ELSE IF a.deployment = Local
        THEN << P("MinIO access key:", a.accessKey), P("MinIO secret key:", a.secretKey),
                P("MinIO bucket name:", a.bucket), P("Expose MinIO to internet?", a.exposed) >>
        ELSE << P("S3 endpoint:", a.endpoint), P("S3 access key:", a.accessKey),
                P("S3 secret key:", a.secretKey), P("S3 bucket name:", a.bucket) >>)

\* A derivation that names the host instead of the compose service:
\* DatabaseUrlDerivation does not hold of it.
DatabaseUrlOnHost(postgres) ==
    IF Enabled(postgres) THEN
        <<"postgres", COLON, "//">> \o Tpl(postgres.config, "POSTGRES_USER")
        \o <<COLON>> \o Tpl(postgres.config, "POSTGRES_PASSWORD")
        \o <<AT, "localhost", COLON, "5432", SLASH>> \o Tpl(postgres.config, "POSTGRES_DB")
    ELSE IF postgres.present /\ Get(postgres.config, "DATABASE_URL") # Empty
    THEN postgres.config.DATABASE_URL
    ELSE Empty

\* main: "Build DATABASE_URL correctly"
DatabaseUrl(postgres) ==
    IF Enabled(postgres) THEN
        <<"postgres", COLON, "//">> \o Tpl(postgres.config, "POSTGRES_USER")
        \o <<COLON>> \o Tpl(postgres.config, "POSTGRES_PASSWORD")
        \o <<AT, "db", COLON, "5432", SLASH>> \o Tpl(postgres.config, "POSTGRES_DB")
    ELSE IF postgres.present /\ Get(postgres.config, "DATABASE_URL") # Empty
    THEN postgres.config.DATABASE_URL
    ELSE Empty

\* main: const config: EnvConfig = { ... }
EnvConfig(l) ==
    [services |-> [api |-> l.api, app |-> l.app, nginx |-> l.nginx,
                   postgres |-> l.postgres, redis |-> l.redis,
                   clickhouse |-> l.clickhouse, minio |-> l.minio],
     betterAuthSecret |-> l.betterAuthSecret,
     databaseUrl      |-> DatabaseUrl(l.postgres),
     origin           |-> l.origin,
     adminEmail       |-> l.adminConfig.email,
     adminPassword    |-> l.adminConfig.password,
     orgName          |-> l.adminConfig.orgName,
     smtpHost         |-> l.smtp.host,
     smtpPort         |-> l.smtp.port,
     smtpFrom         |-> l.smtp.from,
     smtpUser         |-> l.smtp.user,
     smtpPassword     |-> l.smtp.password]

(***************************************************************************)
(* What the operator may type, and what may be on disk before the run.     *)
(***************************************************************************)
OriginTyped == {Empty}
EmailTyped == {Empty, <<"root">>}
PasswordTyped == {Empty, <<"s", "3", "c", "r", "3", "t", "!", "!">>, <<"a", "b", "c">>}
OrgTyped == {Empty}
PortTyped == {Empty, <<"8080">>}
DomainTyped == {Empty, <<"deltas.dev">>}
UrlTyped == {Empty}

AdminTyped == [email : EmailTyped, password : PasswordTyped, orgName : OrgTyped]

\* The entries the validate callbacks let through.
AdminAnswers(existingEnv) ==
    {a \in AdminTyped :
        EmailValid(AdminEmail(existingEnv, a)) /\ PasswordValid(a.password, existingEnv)}

DeltasAPIAnswers ==
    {[enabled |-> No, port |-> Empty]} \cup {[enabled |-> Yes, port |-> p] : p \in PortTyped}

DeltasAppAnswers ==
    {[enabled |-> No, port |-> Empty]} \cup {[enabled |-> Yes, port |-> p] : p \in {Empty}}

\* What the operator would answer to each of the three Nginx prompts; the
\* answers to prompts that are not shown are not used.
NginxAnswers == [enabled : YesNo, domain : DomainTyped, ssl : YesNo]

PostgresAnswers ==
    {[deployment |-> Skip, user |-> Empty, password |-> Empty, db |-> Empty,
      exposed |-> No, url |-> Empty]}
    \cup {[deployment |-> Local, user |-> Empty, password |-> Empty, db |-> Empty,
           exposed |-> e, url |-> Empty] : e \in YesNo}
    \cup {[deployment |-> Local, user |-> <<"root">>, password |-> <<"pw">>,
           db |-> <<"deltas">>, exposed |-> No, url |-> Empty]}
    \cup {[deployment |-> Hosted, user |-> Empty, password |-> Empty, db |-> Empty,
           exposed |-> No, url |-> x] :
              x \in {Empty, <<"postgres", COLON, "//", "pg.example", COLON, "5432", SLASH, "prod">>}}

RedisAnswers ==
    {[deployment |-> Skip, exposed |-> No, url |-> Empty]}
    \cup {[deployment |-> Local, exposed |-> e, url |-> Empty] : e \in YesNo}
    \cup {[deployment |-> Hosted, exposed |-> No, url |-> x] : x \in UrlTyped}

ClickHouseAnswers ==
    {[deployment |-> Skip, password |-> Empty, exposed |-> No, host |-> Empty, port |-> Empty,
      nativePort |-> Empty, user |-> Empty, db |-> Empty]}
    \cup {[deployment |-> Local, password |-> Empty, exposed |-> e, host |-> Empty,
           port |-> Empty, nativePort |-> Empty, user |-> Empty, db |-> Empty] : e \in YesNo}
    \cup {[deployment |-> Hosted, password |-> Empty, exposed |-> No, host |-> h,
           port |-> Empty, nativePort |-> Empty, user |-> Empty, db |-> Empty] :
              h \in {<<"ch.example">>}}

MinIOAnswers ==
    {[deployment |-> Skip, accessKey |-> Empty, secretKey |-> Empty, bucket |-> Empty,
      exposed |-> No, endpoint |-> Empty]}
    \cup {[deployment |-> Local, accessKey |-> Empty, secretKey |-> Empty, bucket |-> Empty,
           exposed |-> e, endpoint |-> Empty] : e \in YesNo}
    \cup {[deployment |-> Hosted, accessKey |-> <<"AKIA">>, secretKey |-> Empty,
           bucket |-> Empty, exposed |-> No, endpoint |-> Empty]}

SMTPAnswers ==
    {[configure |-> No, host |-> Empty, port |-> Empty, from |-> Empty, user |-> Empty,
      password |-> Empty]}
    \cup {[configure |-> Yes, host |-> h, port |-> Empty, from |-> Empty, user |-> Empty,
           password |-> Empty] : h \in {Empty}}

\* Bound: the operator deploys or points at (does not skip) at most
\* MaxInfra of Postgres, Redis, ClickHouse and MinIO in one run.
MaxInfra == 1

InfraCount(locals) ==
    Cardinality({s \in {"postgres", "redis", "clickhouse", "minio"} : locals[s].present})

Within(answers, locals) ==
    {a \in answers : a.deployment = Skip \/ InfraCount(locals) < MaxInfra}

\* stdout of `openssl rand -base64 32`, trimmed.
FreshSecret == <<"b3BlbnNzbA">>

\* main's local variables before they are assigned.
NoLocals ==
    [envCheck    |-> [appExists |-> FALSE, deltasExists |-> FALSE, shouldReplace |-> FALSE,
                      existingAppEnv |-> Empty, existingDeltasEnv |-> Empty],
     existingEnv |-> NoEnv,
     origin |-> Empty, betterAuthSecret |-> Empty,
     adminConfig |-> [email |-> Empty, password |-> Empty, orgName |-> Empty],
     api |-> Absent, app |-> Absent, nginx |-> Absent, postgres |-> Absent,
     redis |-> Absent, clickhouse |-> Absent, minio |-> Absent,
     smtp |-> [host |-> Empty, port |-> Empty, from |-> Empty, user |-> Empty,
               password |-> Empty]]

\* The configuration an earlier run of the wizard saved.
PreviousLocals ==
    [NoLocals EXCEPT
        !.origin = <<"https", COLON, "//", "old.deltas.dev">>,
        !.betterAuthSecret = <<"c2F2ZWQ">>,
        !.adminConfig = [email |-> <<"owner", AT, "old.deltas.dev">>,
                         password |-> <<"OldPassw0rd">>, orgName |-> <<"Old", SP, "Org">>],
        !.api = ServiceConfig(TRUE, TRUE, [API_PORT |-> <<"3000">>]),
        !.nginx = ServiceConfig(TRUE, TRUE, [DOMAIN |-> <<"localhost">>,
                                             SSL_ENABLED |-> <<"false">>]),
        !.postgres = ServiceConfig(TRUE, FALSE, [POSTGRES_USER |-> <<"olduser">>,
                                                 POSTGRES_PASSWORD |-> <<"oldpgpass">>,
                                                 POSTGRES_DB |-> <<"olddb">>]),
        !.smtp = [host |-> <<"mail.old">>, port |-> <<"25">>, from |-> Empty,
                  user |-> Empty, password |-> Empty]]

\* A deltas/.env written by hand: unquoted and single-quoted values, a line
\* without "=", an empty secret, a value holding a quote character, and a
\* DOMAIN, a key the wizard itself never saves.
HandWrittenEnv ==
    Join(<< Comment(<<"local", "overrides">>),
            <<"ORIGIN", EQ, "http", COLON, "//", "dev.local">>,
            <<SP, "ADMIN_EMAIL", EQ, SQ, "dev", AT, "dev.local", SQ, SP>>,
            <<"export", SP, "FOO">>,
            Empty,
            <<"BETTER_AUTH_SECRET", EQ, DQ, DQ>>,
            <<"ORG_NAME", EQ, DQ, "Dev", SQ, "s", DQ>>,
            <<"POSTGRES_USER", EQ, "first">>,
            <<"POSTGRES_USER", EQ, "second">>,
            <<"DOMAIN", EQ, "dev.local">> >>)

File(content) == <<content>>
NoFile == <<>>

\* `unreadable` holds the paths fs.readFile is denied (EACCES).
FreshDisk ==
    [compose |-> NoFile, nginx |-> NoFile, appEnv |-> NoFile, deltasEnv |-> NoFile,
     appDir |-> FALSE, deltasDir |-> FALSE, unreadable |-> {}]

PreviousDisk ==
    [compose   |-> File(generateDockerCompose(EnvConfig(PreviousLocals))),
     nginx     |-> File(<<generateNginxConf(EnvConfig(PreviousLocals))>>),
     appEnv    |-> File(generateEnvFile(EnvConfig(PreviousLocals))),
     deltasEnv |-> File(generateEnvFile(EnvConfig(PreviousLocals))),
     appDir |-> TRUE, deltasDir |-> TRUE, unreadable |-> {}]

\* app/.env is there but may not be read; deltas/.env was written by hand.
HandWrittenDisk ==
    [PreviousDisk EXCEPT !.compose = NoFile, !.nginx = NoFile,
                         !.deltasEnv = File(HandWrittenEnv),
                         !.unreadable = {"app/.env"}]

InitialDisks == {FreshDisk, PreviousDisk, HandWrittenDisk}

\* app/.env was truncated to nothing; deltas/.env still holds the saved run.
TruncatedAppDisk == [PreviousDisk EXCEPT !.appEnv = File(Empty)]

(***************************************************************************)
(* The deployed services at run time: what the mailer and the admin        *)
(* bootstrap read (process.env, the user and organization tables) and what *)
(* they leave behind (console lines, SMTP deliveries, api calls, results). *)
(***************************************************************************)
\* Nothing deployed yet: the state of the services while the wizard runs.
NoRuntime ==
    [env |-> NoEnv, console |-> <<>>, deliveries |-> <<>>, results |-> <<>>,
     users |-> {}, organizations |-> {}, api |-> <<>>]

(***************************************************************************)
(* The wizard run: main() and saveFiles(), one action per awaited step.    *)
(***************************************************************************)
VARIABLES
    pc,         \* the step main() is at
    l,          \* main's local variables (the Collector's results)
    config,     \* const config: EnvConfig
    artifacts,  \* dockerCompose, envContent, nginxConf
    disk,       \* the four artifact files and the two directories
    fsLog,      \* every fs call made, in order, with its outcome
    prompts,    \* every prompt shown, in order, with the operator's answer
    execLog,    \* every run of the secret-generation command, with its outcome
    error,      \* the error thrown into main's catch block
    exitCode,   \* <<>> while running, then <<0>> or <<1>>
    rt          \* the deployed services at run time: mailer and admin bootstrap

vars == <<pc, l, config, artifacts, disk, fsLog, prompts, execLog, error, exitCode, rt>>

NoError == [name |-> "", message |-> Empty]

\* @inquirer's error when the operator aborts a prompt.
ExitPromptError ==
    [name |-> "ExitPromptError",
     message |-> <<"User force closed", SP, "the", SP, "prompt", SP, "with", SP, "SIGINT">>]

ExecError ==
    [name |-> "Error",
     message |-> <<"Command", SP, "failed", COLON, SP, "openssl", SP, "rand", SP,
                   "-base64", SP, "32">>]

FsError(op, path) ==
    [name |-> "Error",
     message |-> <<"EACCES", COLON, SP, "permission", SP, "denied,", SP, op, SP, SQ, path, SQ>>]

FigletError == [name |-> "Error", message |-> <<"font", SP, "not", SP, "found">>]

\* A catch block that does not tell a cancellation from an error: ExitCodes
\* does not hold of it.
NeverCancellation(e) == FALSE

\* main's catch: error.message.includes("User force closed")
IsCancellation(e) == Includes(e.message, "User force closed")

CatchExitCode(e) == IF IsCancellation(e) THEN 0 ELSE 1

NoArtifacts ==
    [dockerCompose |-> generateDockerCompose(EnvConfig(NoLocals)),
     envContent |-> Empty, nginxConf |-> <<>>]

Init ==
    /\ pc = "showBanner"
    /\ l = NoLocals
    /\ config = EnvConfig(NoLocals)
    /\ artifacts = NoArtifacts
    /\ disk \in InitialDisks
    /\ fsLog = <<>>
    /\ prompts = <<>>
    /\ execLog = <<>>
    /\ error = NoError
    /\ exitCode = <<>>
    /\ rt = NoRuntime

\* A throw inside main's try block runs main's catch block, which ends the
\* process: process.exit(0) on cancellation, process.exit(1) otherwise.
Throw(e) ==
    /\ pc' = "exited"
    /\ error' = e
    /\ exitCode' = <<CatchExitCode(e)>>

\* The prompts ps are shown in order; the operator answers them all
\* (k = Len(ps) + 1) or aborts at the k-th.
Ask(ps, k) ==
    prompts' = prompts \o (IF k <= Len(ps)
                           THEN SubSeq(ps, 1, k - 1) \o <<P(ps[k].id, CtrlC)>>
                           ELSE ps)

Fs(op, path, ok) == [op |-> op, path |-> path, ok |-> ok]

ShowBanner ==
    /\ pc = "showBanner"
    /\ \/ pc' = "checkExistingEnv" /\ UNCHANGED <<error, exitCode>>
       \/ Throw(FigletError)
    /\ UNCHANGED <<l, config, artifacts, disk, fsLog, prompts, execLog, rt>>

\* fs.readFile throws on a file that is not there (ENOENT) or may not be
\* read (EACCES).
ReadOk(file, path) == file # NoFile /\ path \notin disk.unreadable

checkExistingEnv(appOk, deltasOk, replace) ==
    IF appOk \/ deltasOk
    THEN [appExists |-> appOk, deltasExists |-> deltasOk, shouldReplace |-> replace = Yes,
          existingAppEnv    |-> IF appOk THEN disk.appEnv[1] ELSE Empty,
          existingDeltasEnv |-> IF deltasOk THEN disk.deltasEnv[1] ELSE Empty]
    ELSE [appExists |-> FALSE, deltasExists |-> FALSE, shouldReplace |-> TRUE,
          existingAppEnv |-> Empty, existingDeltasEnv |-> Empty]

CheckExistingEnvPrompts(appOk, deltasOk, replace) ==
    IF appOk \/ deltasOk THEN <<P("Replace with new configuration?", replace)>> ELSE <<>>

CheckExistingEnv ==
    /\ pc = "checkExistingEnv"
    /\ \E replace \in YesNo :
          LET appOk    == ReadOk(disk.appEnv, "app/.env")
              deltasOk == ReadOk(disk.deltasEnv, "deltas/.env")
              ps       == CheckExistingEnvPrompts(appOk, deltasOk, replace)
          IN  /\ fsLog' = fsLog \o <<Fs("readFile", "app/.env", appOk),
                                     Fs("readFile", "deltas/.env", deltasOk)>>
              /\ \E k \in 1..(Len(ps) + 1) :
                    /\ Ask(ps, k)
                    /\ IF k <= Len(ps)
                       THEN Throw(ExitPromptError) /\ UNCHANGED l
                       ELSE /\ l' = [l EXCEPT !.envCheck =
                                        checkExistingEnv(appOk, deltasOk, replace)]
                            /\ pc' = "basicConfiguration"
                            /\ UNCHANGED <<error, exitCode>>
    /\ UNCHANGED <<config, artifacts, disk, execLog, rt>>

\* A main that loads the saved file whatever the operator answered:
\* SavedConfiguration does not hold of it.
LoadWhateverAnswered(envCheck) ==
    IF envCheck.existingAppEnv # Empty THEN parseEnvFile(envCheck.existingAppEnv)
    ELSE parseEnvFile(envCheck.existingDeltasEnv)

\* main: "Loading existing configuration..."
LoadExistingEnv(envCheck) ==
    IF ~envCheck.shouldReplace /\ (envCheck.appExists \/ envCheck.deltasExists)
    THEN IF envCheck.existingAppEnv # Empty THEN parseEnvFile(envCheck.existingAppEnv)
         ELSE IF envCheck.existingDeltasEnv # Empty
              THEN parseEnvFile(envCheck.existingDeltasEnv)
         ELSE NoEnv
    ELSE NoEnv

BasicConfiguration ==
    /\ pc = "basicConfiguration"
    /\ LET existingEnv == LoadExistingEnv(l.envCheck)
       IN  \E typed \in OriginTyped :
             LET ps == <<P("Application origin URL:", typed)>>
             IN  \E k \in 1..(Len(ps) + 1) :
                   /\ Ask(ps, k)
                   /\ IF k <= Len(ps)
                      THEN Throw(ExitPromptError)
                           /\ l' = [l EXCEPT !.existingEnv = existingEnv]
                      ELSE /\ l' = [l EXCEPT
                                     !.existingEnv = existingEnv,
                                     !.origin = Input(typed,
                                        OrElse(EnvGet(existingEnv, "ORIGIN"),
                                               <<"http", COLON, "//", "localhost", COLON,
                                                 "5173">>))]
                           /\ pc' = "betterAuthSecret"
                           /\ UNCHANGED <<error, exitCode>>
    /\ UNCHANGED <<config, artifacts, disk, fsLog, execLog, rt>>

\* A main that generates a secret on every run:
\* AuthSecret does not hold of it.
SecretNeverReused(existingEnv) == FALSE

\* existingEnv.BETTER_AUTH_SECRET || await generateSecret()
SecretIsReused(existingEnv) == EnvGet(existingEnv, "BETTER_AUTH_SECRET") # Empty

BetterAuthSecret ==
    /\ pc = "betterAuthSecret"
    /\ IF SecretIsReused(l.existingEnv)
       THEN /\ l' = [l EXCEPT !.betterAuthSecret = EnvGet(l.existingEnv, "BETTER_AUTH_SECRET")]
            /\ pc' = "configureAdmin"
            /\ UNCHANGED <<execLog, error, exitCode>>
       ELSE \E ok \in BOOLEAN :
              /\ execLog' = Append(execLog, ok)
              /\ IF ok
                 THEN /\ l' = [l EXCEPT !.betterAuthSecret = FreshSecret]
                      /\ pc' = "configureAdmin"
                      /\ UNCHANGED <<error, exitCode>>
                 ELSE Throw(ExecError) /\ UNCHANGED l
    /\ UNCHANGED <<config, artifacts, disk, fsLog, prompts, rt>>

ConfigureAdmin ==
    /\ pc = "configureAdmin"
    /\ \E a \in AdminAnswers(l.existingEnv) :
          LET ps == AdminPrompts(a)
          IN  \E k \in 1..(Len(ps) + 1) :
                /\ Ask(ps, k)
                /\ IF k <= Len(ps)
                   THEN Throw(ExitPromptError) /\ UNCHANGED l
                   ELSE /\ l' = [l EXCEPT !.adminConfig = configureAdmin(l.existingEnv, a)]
                        /\ pc' = "configureDeltasAPI"
                        /\ UNCHANGED <<error, exitCode>>
    /\ UNCHANGED <<config, artifacts, disk, fsLog, execLog, rt>>

ConfigureDeltasAPI ==
    /\ pc = "configureDeltasAPI"
    /\ \E a \in DeltasAPIAnswers :
          LET ps == DeltasAPIPrompts(a)
          IN  \E k \in 1..(Len(ps) + 1) :
                /\ Ask(ps, k)
                /\ IF k <= Len(ps)
                   THEN Throw(ExitPromptError) /\ UNCHANGED l
                   ELSE /\ l' = [l EXCEPT !.api = configureDeltasAPI(l.existingEnv, a)]
                        /\ pc' = "configureDeltasApp"
                        /\ UNCHANGED <<error, exitCode>>
    /\ UNCHANGED <<config, artifacts, disk, fsLog, execLog, rt>>

ConfigureDeltasApp ==
    /\ pc = "configureDeltasApp"
    /\ \E a \in DeltasAppAnswers :
          LET ps == DeltasAppPrompts(a)
          IN  \E k \in 1..(Len(ps) + 1) :
                /\ Ask(ps, k)
                /\ IF k <= Len(ps)
                   THEN Throw(ExitPromptError) /\ UNCHANGED l
                   ELSE /\ l' = [l EXCEPT !.app = configureDeltasApp(l.existingEnv, a)]
                        /\ pc' = "configureNginx"
                        /\ UNCHANGED <<error, exitCode>>
    /\ UNCHANGED <<config, artifacts, disk, fsLog, execLog, rt>>

\* configureNginx(!!api, !!app)
ConfigureNginx ==
    /\ pc = "configureNginx"
    /\ \E a \in NginxAnswers :
          LET ps == NginxPrompts(l.api.present, l.app.present, a)
          IN  \E k \in 1..(Len(ps) + 1) :
                /\ Ask(ps, k)
                /\ IF k <= Len(ps)
                   THEN Throw(ExitPromptError) /\ UNCHANGED l
                   ELSE /\ l' = [l EXCEPT !.nginx =
                                    configureNginx(l.api.present, l.app.present, a)]
                        /\ pc' = "configurePostgres"
                        /\ UNCHANGED <<error, exitCode>>
    /\ UNCHANGED <<config, artifacts, disk, fsLog, execLog, rt>>

ConfigurePostgres ==
    /\ pc = "configurePostgres"
    /\ \E a \in Within(PostgresAnswers, l) :
          LET ps == PostgresPrompts(a)
          IN  \E k \in 1..(Len(ps) + 1) :
                /\ Ask(ps, k)
                /\ IF k <= Len(ps)
                   THEN Throw(ExitPromptError) /\ UNCHANGED l
                   ELSE /\ l' = [l EXCEPT !.postgres = configurePostgres(l.existingEnv, a)]
                        /\ pc' = "configureRedis"
                        /\ UNCHANGED <<error, exitCode>>
    /\ UNCHANGED <<config, artifacts, disk, fsLog, execLog, rt>>

ConfigureRedis ==
    /\ pc = "configureRedis"
    /\ \E a \in Within(RedisAnswers, l) :
          LET ps == RedisPrompts(a)
          IN  \E k \in 1..(Len(ps) + 1) :
                /\ Ask(ps, k)
                /\ IF k <= Len(ps)
                   THEN Throw(ExitPromptError) /\ UNCHANGED l
                   ELSE /\ l' = [l EXCEPT !.redis = configureRedis(l.existingEnv, a)]
                        /\ pc' = "configureClickHouse"
                        /\ UNCHANGED <<error, exitCode>>
    /\ UNCHANGED <<config, artifacts, disk, fsLog, execLog, rt>>

ConfigureClickHouse ==
    /\ pc = "configureClickHouse"
    /\ \E a \in Within(ClickHouseAnswers, l) :
          LET ps == ClickHousePrompts(a)
          IN  \E k \in 1..(Len(ps) + 1) :
                /\ Ask(ps, k)
                /\ IF k <= Len(ps)
                   THEN Throw(ExitPromptError) /\ UNCHANGED l
                   ELSE /\ l' = [l EXCEPT !.clickhouse = configureClickHouse(l.existingEnv, a)]
                        /\ pc' = "configureMinIO"
                        /\ UNCHANGED <<error, exitCode>>
    /\ UNCHANGED <<config, artifacts, disk, fsLog, execLog, rt>>

ConfigureMinIO ==
    /\ pc = "configureMinIO"
    /\ \E a \in Within(MinIOAnswers, l) :
          LET ps == MinIOPrompts(a)
          IN  \E k \in 1..(Len(ps) + 1) :
                /\ Ask(ps, k)
                /\ IF k <= Len(ps)
                   THEN Throw(ExitPromptError) /\ UNCHANGED l
                   ELSE /\ l' = [l EXCEPT !.minio = configureMinIO(l.existingEnv, a)]
                        /\ pc' = "configureSMTP"
                        /\ UNCHANGED <<error, exitCode>>
    /\ UNCHANGED <<config, artifacts, disk, fsLog, execLog, rt>>

ConfigureSMTP ==
    /\ pc = "configureSMTP"
    /\ \E a \in SMTPAnswers :
          LET ps == SMTPPrompts(a)
          IN  \E k \in 1..(Len(ps) + 1) :
                /\ Ask(ps, k)
                /\ IF k <= Len(ps)
                   THEN Throw(ExitPromptError) /\ UNCHANGED l
                   ELSE /\ l' = [l EXCEPT !.smtp = configureSMTP(l.existingEnv, a)]
                        /\ pc' = "generate"
                        /\ UNCHANGED <<error, exitCode>>
    /\ UNCHANGED <<config, artifacts, disk, fsLog, execLog, rt>>

\* Emitters that keep the compose file of an earlier run when there is one
\* and take the organization from the saved .env: EmitterDeterminism does
\* not hold of them.
EmitOverSaved(cfg) ==
    [dockerCompose |-> IF disk.compose # NoFile THEN disk.compose[1]
                       ELSE generateDockerCompose(cfg),
     envContent    |-> generateEnvFile(
                           [cfg EXCEPT !.orgName = OrElse(EnvGet(l.existingEnv, "ORG_NAME"), @)]),
     nginxConf     |-> IF cfg.services.nginx.present THEN <<generateNginxConf(cfg)>>
                       ELSE <<>>]

\* main: the three emitters; generateNginxConf runs only when nginx is set.
Emit(cfg) ==
    [dockerCompose |-> generateDockerCompose(cfg),
     envContent    |-> generateEnvFile(cfg),
     nginxConf     |-> IF cfg.services.nginx.present THEN <<generateNginxConf(cfg)>>
                       ELSE <<>>]

\* main: databaseUrl, const config, "Generating configuration..." and the
\* three emitter calls.
Generate ==
    /\ pc = "generate"
    /\ config' = EnvConfig(l)
    /\ artifacts' = Emit(EnvConfig(l))
    /\ pc' = "writeCompose"
    /\ UNCHANGED <<l, disk, fsLog, prompts, execLog, error, exitCode, rt>>

\* A write of docker-compose.yaml whose failure is not thrown: WriterFailure
\* does not hold of it.
WriteComposeUnchecked ==
    /\ pc = "writeCompose"
    /\ \E ok \in BOOLEAN :
          /\ fsLog' = Append(fsLog, Fs("writeFile", "docker-compose.yaml", ok))
          /\ disk' = IF ok THEN [disk EXCEPT !.compose = File(artifacts.dockerCompose)]
                     ELSE disk
          /\ pc' = IF Enabled(config.services.nginx) THEN "writeNginx" ELSE "mkdirApp"
          /\ UNCHANGED <<error, exitCode>>
    /\ UNCHANGED <<l, config, artifacts, prompts, execLog, rt>>

\* A mkdir of deltas/ whose failure is not thrown: FsWriteErrorsFatal does
\* not hold of it.
MkdirDeltasUnchecked ==
    /\ pc = "mkdirDeltas"
    /\ \E ok \in BOOLEAN :
          /\ fsLog' = Append(fsLog, Fs("mkdir", "deltas", ok))
          /\ disk' = IF ok THEN [disk EXCEPT !.deltasDir = TRUE] ELSE disk
          /\ pc' = "writeDeltasEnv"
          /\ UNCHANGED <<error, exitCode>>
    /\ UNCHANGED <<l, config, artifacts, prompts, execLog, rt>>

\* A writer that leaves the admin password out of deltas/.env:
\* WriterOutputs does not hold of it.
WriteDeltasEnvRedacted ==
    /\ pc = "writeDeltasEnv"
    /\ \E ok \in (IF disk.deltasDir THEN BOOLEAN ELSE {FALSE}) :
          /\ fsLog' = Append(fsLog, Fs("writeFile", "deltas/.env", ok))
          /\ IF ok
             THEN /\ disk' = [disk EXCEPT !.deltasEnv =
                                File(generateEnvFile([config EXCEPT !.adminPassword = Empty]))]
                  /\ pc' = "exited"
                  /\ exitCode' = <<0>>
                  /\ UNCHANGED error
             ELSE Throw(FsError("open", "deltas/.env")) /\ UNCHANGED disk
    /\ UNCHANGED <<l, config, artifacts, prompts, execLog, rt>>

\* A saveFiles that asks for a confirmation after it wrote
\* docker-compose.yaml: CancellationLeavesDisk does not hold of it.
WriteComposeThenConfirm ==
    /\ pc = "writeCompose"
    /\ \E ok \in BOOLEAN, answer \in {Yes, CtrlC} :
          /\ fsLog' = Append(fsLog, Fs("writeFile", "docker-compose.yaml", ok))
          /\ prompts' = IF ok THEN Append(prompts, P("Continue?", answer)) ELSE prompts
          /\ IF ok
             THEN /\ disk' = [disk EXCEPT !.compose = File(artifacts.dockerCompose)]
                  /\ IF answer = Yes
                     THEN /\ pc' = IF Enabled(config.services.nginx) THEN "writeNginx"
                                   ELSE "mkdirApp"
                          /\ UNCHANGED <<error, exitCode>>
                     ELSE Throw(ExitPromptError)
             ELSE Throw(FsError("open", "docker-compose.yaml")) /\ UNCHANGED disk
    /\ UNCHANGED <<l, config, artifacts, execLog, rt>>

\* saveFiles: one action per fs call; each either completes or throws.  When
\* the last one completes main returns and the process ends with code 0.
WriteCompose ==
    /\ pc = "writeCompose"
    /\ \E ok \in BOOLEAN :
          /\ fsLog' = Append(fsLog, Fs("writeFile", "docker-compose.yaml", ok))
          /\ IF ok
             THEN /\ disk' = [disk EXCEPT !.compose = File(artifacts.dockerCompose)]
                  /\ pc' = IF Enabled(config.services.nginx) THEN "writeNginx" ELSE "mkdirApp"
                  /\ UNCHANGED <<error, exitCode>>
             ELSE Throw(FsError("open", "docker-compose.yaml")) /\ UNCHANGED disk
    /\ UNCHANGED <<l, config, artifacts, prompts, execLog, rt>>

WriteNginx ==
    /\ pc = "writeNginx"
    /\ \E ok \in BOOLEAN :
          /\ fsLog' = Append(fsLog, Fs("writeFile", "nginx.conf", ok))
          /\ IF ok
             THEN /\ disk' = [disk EXCEPT !.nginx = File(artifacts.nginxConf)]
                  /\ pc' = "mkdirApp"
                  /\ UNCHANGED <<error, exitCode>>
             ELSE Throw(FsError("open", "nginx.conf")) /\ UNCHANGED disk
    /\ UNCHANGED <<l, config, artifacts, prompts, execLog, rt>>

MkdirApp ==
    /\ pc = "mkdirApp"
    /\ \E ok \in BOOLEAN :
          /\ fsLog' = Append(fsLog, Fs("mkdir", "app", ok))
          /\ IF ok
             THEN /\ disk' = [disk EXCEPT !.appDir = TRUE]
                  /\ pc' = "writeAppEnv"
                  /\ UNCHANGED <<error, exitCode>>
             ELSE Throw(FsError("mkdir", "app")) /\ UNCHANGED disk
    /\ UNCHANGED <<l, config, artifacts, prompts, execLog, rt>>

WriteAppEnv ==
    /\ pc = "writeAppEnv"
    /\ \E ok \in (IF disk.appDir THEN BOOLEAN ELSE {FALSE}) :
          /\ fsLog' = Append(fsLog, Fs("writeFile", "app/.env", ok))
          /\ IF ok
             THEN /\ disk' = [disk EXCEPT !.appEnv = File(artifacts.envContent)]
                  /\ pc' = "mkdirDeltas"
                  /\ UNCHANGED <<error, exitCode>>
             ELSE Throw(FsError("open", "app/.env")) /\ UNCHANGED disk
    /\ UNCHANGED <<l, config, artifacts, prompts, execLog, rt>>

MkdirDeltas ==
    /\ pc = "mkdirDeltas"
    /\ \E ok \in BOOLEAN :
          /\ fsLog' = Append(fsLog, Fs("mkdir", "deltas", ok))
          /\ IF ok
             THEN /\ disk' = [disk EXCEPT !.deltasDir = TRUE]
                  /\ pc' = "writeDeltasEnv"
                  /\ UNCHANGED <<error, exitCode>>
             ELSE Throw(FsError("mkdir", "deltas")) /\ UNCHANGED disk
    /\ UNCHANGED <<l, config, artifacts, prompts, execLog, rt>>

WriteDeltasEnv ==
    /\ pc = "writeDeltasEnv"
    /\ \E ok \in (IF disk.deltasDir THEN BOOLEAN ELSE {FALSE}) :
          /\ fsLog' = Append(fsLog, Fs("writeFile", "deltas/.env", ok))
          /\ IF ok
             THEN /\ disk' = [disk EXCEPT !.deltasEnv = File(artifacts.envContent)]
                  /\ pc' = "exited"
                  /\ exitCode' = <<0>>
                  /\ UNCHANGED error
             ELSE Throw(FsError("open", "deltas/.env")) /\ UNCHANGED disk
    /\ UNCHANGED <<l, config, artifacts, prompts, execLog, rt>>

Next ==
    \/ ShowBanner
    \/ CheckExistingEnv
    \/ BasicConfiguration
    \/ BetterAuthSecret
    \/ ConfigureAdmin
    \/ ConfigureDeltasAPI
    \/ ConfigureDeltasApp
    \/ ConfigureNginx
    \/ ConfigurePostgres
    \/ ConfigureRedis
    \/ ConfigureClickHouse
    \/ ConfigureMinIO
    \/ ConfigureSMTP
    \/ Generate
    \/ WriteCompose
    \/ WriteNginx
    \/ MkdirApp
    \/ WriteAppEnv
    \/ MkdirDeltas
    \/ WriteDeltasEnv

Spec == Init /\ [][Next]_vars

(***************************************************************************)
(* The emitters on their own: the three generate* functions applied to     *)
(* topology models that are not tied to a run of the prompts.              *)
(***************************************************************************)
\* Bound: the length of the texts the round trip is tried on.
MaxLen == 2

Alphabet == {"a", EQ, HASH, SP, DQ, SQ}

Strings(n) == UNION {[1..k -> Alphabet] : k \in 0..n}

ApiConfigs ==
    {Absent} \cup {ServiceConfig(TRUE, e, [API_PORT |-> <<"3000">>]) : e \in BOOLEAN}

AppConfigs ==
    {Absent} \cup {ServiceConfig(TRUE, e, [APP_PORT |-> <<"5173">>]) : e \in BOOLEAN}

NginxConfigs ==
    {Absent}
    \cup {ServiceConfig(TRUE, e, [DOMAIN |-> <<"localhost">>, SSL_ENABLED |-> <<"false">>]) :
            e \in BOOLEAN}
    \cup {ServiceConfig(TRUE, TRUE, [DOMAIN |-> <<"deltas.dev">>, SSL_ENABLED |-> <<"true">>])}

PostgresConfigs ==
    {Absent}
    \cup {ServiceConfig(TRUE, e, [POSTGRES_USER |-> <<"root">>, POSTGRES_PASSWORD |-> <<"pw">>,
                                  POSTGRES_DB |-> <<"deltas">>]) : e \in BOOLEAN}
    \cup {ServiceConfig(FALSE, FALSE,
            [DATABASE_URL |-> <<"postgres", COLON, "//", "pg.example", COLON, "5432",
                                SLASH, "prod">>])}

RedisConfigs ==
    {Absent}
    \cup {ServiceConfig(TRUE, e, NoEnv) : e \in BOOLEAN}
    \cup {ServiceConfig(FALSE, FALSE,
            [REDIS_URL |-> <<"redis", COLON, "//", "cache.example", COLON, "6379">>])}

ClickHouseConfigs ==
    {Absent}
    \cup {ServiceConfig(TRUE, e, [CLICKHOUSE_PASSWORD |-> <<"clickhouse">>]) : e \in BOOLEAN}
    \cup {ServiceConfig(FALSE, FALSE,
            [CLICKHOUSE_HOST |-> <<"ch.example">>, CLICKHOUSE_PORT |-> <<"8123">>,
             CLICKHOUSE_NATIVE_PORT |-> <<"9440">>, CLICKHOUSE_USER |-> <<"default">>,
             CLICKHOUSE_PASSWORD |-> Empty, CLICKHOUSE_DATABASE |-> <<"default">>])}

MinioConfigs ==
    {Absent}
    \cup {ServiceConfig(TRUE, e, [S3_ACCESS_KEY |-> <<"minioadmin">>,
                                  S3_SECRET_KEY |-> <<"minioadmin">>,
                                  S3_BUCKET |-> <<"deltas-bucket">>]) : e \in BOOLEAN}
    \cup {ServiceConfig(FALSE, FALSE,
            [S3_ENDPOINT |-> <<"https", COLON, "//", "s3.amazonaws.com">>,
             S3_ACCESS_KEY |-> <<"AKIA">>, S3_SECRET_KEY |-> Empty, S3_BUCKET |-> Empty])}

\* What the Collector returns on an empty directory when the operator only
\* types the admin password, the organization name and the SMTP user name.
CollectedWith(orgName, smtpUser) ==
    [NoLocals EXCEPT
        !.origin = <<"http", COLON, "//", "localhost", COLON, "5173">>,
        !.betterAuthSecret = FreshSecret,
        !.adminConfig = configureAdmin(NoEnv,
            [email |-> Empty, password |-> <<"s", "3", "c", "r", "3", "t", "!", "!">>,
             orgName |-> orgName]),
        !.api = configureDeltasAPI(NoEnv, [enabled |-> Yes, port |-> Empty]),
        !.postgres = configurePostgres(NoEnv,
            [deployment |-> Local, user |-> Empty, password |-> Empty, db |-> Empty,
             exposed |-> No, url |-> Empty]),
        !.smtp = configureSMTP(NoEnv,
            [configure |-> Yes, host |-> Empty, port |-> Empty, from |-> Empty,
             user |-> smtpUser, password |-> Empty])]

\* Topology models of every shape of the seven services.
ShapeLocals ==
    {[CollectedWith(Empty, Empty) EXCEPT
         !.api = api, !.app = app, !.nginx = nginx, !.postgres = postgres,
         !.redis = redis, !.clickhouse = clickhouse, !.minio = minio] :
       api \in ApiConfigs, app \in AppConfigs, nginx \in NginxConfigs,
       postgres \in PostgresConfigs, redis \in RedisConfigs,
       clickhouse \in ClickHouseConfigs, minio \in MinioConfigs}

\* Collector results with every short text as ORG_NAME and SMTP_USER.
TextLocals ==
    {CollectedWith(orgName, smtpUser) : orgName \in Strings(MaxLen), smtpUser \in Strings(MaxLen)}

EmitInit ==
    /\ pc = "generate"
    /\ l \in ShapeLocals \cup TextLocals
    /\ config = EnvConfig(NoLocals)
    /\ artifacts = NoArtifacts
    /\ disk = FreshDisk
    /\ fsLog = <<>>
    /\ prompts = <<>>
    /\ execLog = <<>>
    /\ error = NoError
    /\ exitCode = <<>>
    /\ rt = NoRuntime

EmitNext == Generate

SpecEmit == EmitInit /\ [][EmitNext]_vars

(***************************************************************************)
(* The wizard run again over saved configuration: the same run, started    *)
(* also in a directory whose app/.env is empty.                            *)
(***************************************************************************)
RerunInit ==
    /\ pc = "showBanner"
    /\ l = NoLocals
    /\ config = EnvConfig(NoLocals)
    /\ artifacts = NoArtifacts
    /\ disk \in InitialDisks \cup {TruncatedAppDisk}
    /\ fsLog = <<>>
    /\ prompts = <<>>
    /\ execLog = <<>>
    /\ error = NoError
    /\ exitCode = <<>>
    /\ rt = NoRuntime

SpecRerun == RerunInit /\ [][Next]_vars

(***************************************************************************)
(* The mailer: test() calls sendEmail three times in a service whose       *)
(* process.env holds the SMTP_ values of the .env the wizard wrote.        *)
(***************************************************************************)
\* sendEmail: "Check if SMTP is configured"
IsConfigured(env) ==
    /\ EnvGet(env, "SMTP_HOST") # Empty
    /\ EnvGet(env, "SMTP_USER") # Empty
    /\ EnvGet(env, "SMTP_PASSWORD") # Empty

\* One call of sendEmail by test(): the console fallback, or a delivery
\* through the transporter that succeeds or throws; a throw rejects test().
\* (SMTP_PORT is a text of decimal digits, which parseInt reads as written.)
SendEmail ==
    /\ pc = "sendEmail"
    /\ LET \* the options of the three calls of test(); a field left out is empty
           TestOptions ==
           << [to |-> <<"user@example.com">>, isArray |-> FALSE, subject |-> <<"Welcome!">>,
               text |-> Empty, html |-> <<"<h1>Hello!</h1><p>Welcome to our app.</p>">>,
               from |-> Empty],
              [to |-> <<"user1@example.com", "user2@example.com">>, isArray |-> TRUE,
               subject |-> <<"Team Update">>, text |-> <<"Meeting at 3pm today">>,
               html |-> Empty, from |-> Empty],
              [to |-> <<"customer@example.com">>, isArray |-> FALSE,
               subject |-> <<"Order Confirmation">>, text |-> Empty,
               html |-> <<"<p>Your order #12345 has been confirmed</p>">>,
               from |-> <<"orders@mystore.com">>] >>
           options == TestOptions[Len(rt.results) + 1]
           to      == IF options.isArray
                      THEN Join([i \in 1..Len(options.to) |->
                                    IF i = 1 THEN <<options.to[i]>>
                                    ELSE <<",", SP, options.to[i]>>])
                      ELSE options.to
           last    == Len(rt.results) + 1 = Len(TestOptions)
       IN  IF ~IsConfigured(rt.env)
           THEN \E now \in {"1762150000000", "1762150000001"} :
                  /\ rt' = [rt EXCEPT
                              !.console = Append(@,
                                  [to |-> to,
                                   from |-> OrElse(options.from, <<"no-reply@example.com">>),
                                   subject |-> options.subject,
                                   body |-> OrElse(options.html, options.text)]),
                              !.results = Append(@, [success |-> TRUE,
                                                     messageId |-> <<"console-", now>>])]
                  /\ pc' = IF last THEN "tested" ELSE pc
           ELSE \E ok \in BOOLEAN :
                  /\ rt' = [rt EXCEPT
                              !.deliveries = Append(@,
                                  [host |-> EnvGet(rt.env, "SMTP_HOST"),
                                   port |-> OrElse(EnvGet(rt.env, "SMTP_PORT"), <<"587">>),
                                   secure |-> EnvGet(rt.env, "SMTP_SECURE") = <<"true">>,
                                   user |-> EnvGet(rt.env, "SMTP_USER"),
                                   pass |-> EnvGet(rt.env, "SMTP_PASSWORD"),
                                   from |-> OrElse(options.from,
                                               OrElse(EnvGet(rt.env, "SMTP_FROM"),
                                                      EnvGet(rt.env, "SMTP_USER"))),
                                   to |-> to, subject |-> options.subject,
                                   text |-> options.text, html |-> options.html,
                                   ok |-> ok]),
                              !.results = Append(@, [success |-> ok,
                                                     messageId |-> IF ok THEN <<"<id@smtp>">>
                                                                   ELSE Empty])]
                  /\ pc' = IF ~ok THEN "rejected" ELSE IF last THEN "tested" ELSE pc
    /\ UNCHANGED <<l, config, artifacts, disk, fsLog, prompts, execLog, error, exitCode>>

\* The service starts with the .env of a finished wizard run in which the
\* operator answered the SMTP prompts in one of the ways below; the values
\* between the quotes of its SMTP_ lines are the process.env of the service.
MailInit ==
    /\ pc = "sendEmail"
    /\ \E a \in {[configure |-> No, host |-> Empty, port |-> Empty, from |-> Empty,
                  user |-> Empty, password |-> Empty]}
                \cup [configure : {Yes}, host : {Empty, <<"smtp.example.com">>},
                      port : {Empty}, from : {Empty, <<"app@example.com">>},
                      user : {Empty, <<"mailer">>}, password : {Empty, <<"pw">>}] :
          /\ l = [CollectedWith(Empty, Empty) EXCEPT !.smtp = configureSMTP(NoEnv, a)]
          /\ prompts = SMTPPrompts(a)
    /\ config = EnvConfig(l)
    /\ artifacts = Emit(config)
    /\ disk = [FreshDisk EXCEPT !.compose = File(artifacts.dockerCompose),
                                !.appEnv = File(artifacts.envContent),
                                !.deltasEnv = File(artifacts.envContent),
                                !.appDir = TRUE, !.deltasDir = TRUE]
    /\ fsLog = <<>>
    /\ execLog = <<>>
    /\ error = NoError
    /\ exitCode = <<0>>
    /\ rt = [NoRuntime EXCEPT !.env =
                (<<"SMTP_HOST">> :> config.smtpHost) @@ (<<"SMTP_PORT">> :> config.smtpPort)
                @@ (<<"SMTP_FROM">> :> config.smtpFrom) @@ (<<"SMTP_USER">> :> config.smtpUser)
                @@ (<<"SMTP_PASSWORD">> :> config.smtpPassword)]

SpecMail == MailInit /\ [][SendEmail]_vars

(***************************************************************************)
(* The admin bootstrap: runMigrations and initAuth create the admin user   *)
(* through Better Auth, initAuth the organization too.  The service may    *)
(* call either any number of times; process.env stays what it is.          *)
(***************************************************************************)
MaxCalls == 3

\* String.prototype.toLowerCase and the i flag of a regular expression, on
\* the chunks texts are made of here.
ToLowerCase(text) ==
    [i \in 1..Len(text) |->
        CASE text[i] = "Acme" -> "acme"
          [] text[i] = "Labs" -> "labs"
          [] text[i] = "Deltas" -> "deltas"
          [] text[i] = "User" -> "user"
          [] text[i] = "Email" -> "email"
          [] text[i] = "UNIQUE" -> "unique"
          [] text[i] = "Duplicate" -> "duplicate"
          [] text[i] = "Already" -> "already"
          [] OTHER -> text[i]]

\* A catch that tests the message as it is, without the i flag:
\* AdminBootstrap does not hold of it.
IsDuplicateCaseSensitive(message) ==
    \E i \in 1..Len(message) :
        \/ message[i] \in {"duplicate", "unique"}
        \/ /\ i + 2 <= Len(message)
           /\ message[i] = "already" /\ message[i + 1] = SP /\ message[i + 2] = "exists"

\* /already exists|duplicate|unique/i.test(err.message)
IsDuplicate(message) ==
    LET m == ToLowerCase(message)
    IN  \E i \in 1..Len(m) :
            \/ m[i] \in {"duplicate", "unique"}
            \/ /\ i + 2 <= Len(m)
               /\ m[i] = "already" /\ m[i + 1] = SP /\ m[i + 2] = "exists"

\* One call of initAuth.  createUser resolves only when no user has the
\* email yet, and may reject with any error; createOrganization resolves or
\* rejects.  The call returns (thrown = NoError) or throws.
InitAuth ==
    /\ pc = "initAuth"
    /\ Len(rt.results) < MaxCalls
    /\ LET n       == Len(rt.results) + 1
           email   == OrElse(EnvGet(rt.env, "ADMIN_EMAIL"), <<"admin", AT, "deltas.email">>)
           orgName == EnvGet(rt.env, "ORG_NAME")
           newUser == [id |-> Cardinality(rt.users) + 1, email |-> email,
                       password |-> OrElse(EnvGet(rt.env, "ADMIN_PASSWORD"),
                                           <<"StrongPassword123">>),
                       name |-> "Admin", role |-> "admin"]
           org     == [name |-> OrElse(orgName, <<"Deltas">>),
                       slug |-> ToLowerCase(OrElse(orgName, <<"deltas">>)),
                       userId |-> newUser.id]
       IN  \/ /\ \A u \in rt.users : u.email # email
              /\ \E created \in BOOLEAN :
                    rt' = [rt EXCEPT
                             !.users = @ \cup {newUser},
                             !.organizations = IF created THEN @ \cup {org} ELSE @,
                             !.api = @ \o <<[call |-> n, fn |-> "initAuth", op |-> "createUser",
                                             ok |-> TRUE, message |-> Empty],
                                            [call |-> n, fn |-> "initAuth",
                                             op |-> "createOrganization", ok |-> created,
                                             message |-> Empty]>>,
                             !.console = @ \o (IF created THEN <<>>
                                               ELSE <<"Error creating organization:">>),
                             !.results = Append(@, [fn |-> "initAuth", thrown |-> NoError])]
           \/ \E message \in {<<"User", SP, "already", SP, "exists">>,
                              <<"UNIQUE", SP, "constraint", SP, "failed", COLON, SP,
                                "user.email">>,
                              <<"Duplicate", SP, "entry">>,
                              <<"Email", SP, "already", SP, "in", SP, "use">>,
                              <<"database", SP, "is", SP, "locked">>} :
                 rt' = [rt EXCEPT
                          !.api = Append(@, [call |-> n, fn |-> "initAuth", op |-> "createUser",
                                             ok |-> FALSE, message |-> message]),
                          !.console = @ \o (IF IsDuplicate(message)
                                            THEN <<"Admin user already exists; skipping user and organization creation.">>
                                            ELSE <<>>),
                          !.results = Append(@,
                              [fn |-> "initAuth",
                               thrown |-> IF IsDuplicate(message) THEN NoError
                                          ELSE [name |-> "APIError", message |-> message]])]
    /\ UNCHANGED <<pc, l, config, artifacts, disk, fsLog, prompts, execLog, error, exitCode>>

\* One call of runMigrations: the migration, then the admin user as in
\* initAuth, and no organization.
RunMigrations ==
    /\ pc = "initAuth"
    /\ Len(rt.results) < MaxCalls
    /\ LET n       == Len(rt.results) + 1
           email   == OrElse(EnvGet(rt.env, "ADMIN_EMAIL"), <<"admin", AT, "deltas.email">>)
           newUser == [id |-> Cardinality(rt.users) + 1, email |-> email,
                       password |-> OrElse(EnvGet(rt.env, "ADMIN_PASSWORD"),
                                           <<"StrongPassword123">>),
                       name |-> "Admin", role |-> "admin"]
       IN  \/ /\ \A u \in rt.users : u.email # email
              /\ rt' = [rt EXCEPT
                          !.users = @ \cup {newUser},
                          !.api = Append(@, [call |-> n, fn |-> "runMigrations",
                                             op |-> "createUser", ok |-> TRUE,
                                             message |-> Empty]),
                          !.results = Append(@, [fn |-> "runMigrations", thrown |-> NoError])]
           \/ \E message \in {<<"User", SP, "already", SP, "exists">>,
                              <<"UNIQUE", SP, "constraint", SP, "failed", COLON, SP,
                                "user.email">>,
                              <<"Duplicate", SP, "entry">>,
                              <<"Email", SP, "already", SP, "in", SP, "use">>,
                              <<"database", SP, "is", SP, "locked">>} :
                 rt' = [rt EXCEPT
                          !.api = Append(@, [call |-> n, fn |-> "runMigrations",
                                             op |-> "createUser", ok |-> FALSE,
                                             message |-> message]),
                          !.console = @ \o (IF IsDuplicate(message)
                                            THEN <<"Admin user already exists; skipping creation.">>
                                            ELSE <<>>),
                          !.results = Append(@,
                              [fn |-> "runMigrations",
                               thrown |-> IF IsDuplicate(message) THEN NoError
                                          ELSE [name |-> "APIError", message |-> message]])]
    /\ UNCHANGED <<pc, l, config, artifacts, disk, fsLog, prompts, execLog, error, exitCode>>

\* The service starts with an empty database; ADMIN_EMAIL, ADMIN_PASSWORD
\* and ORG_NAME are set, as by the .env of the wizard, or are not.
AuthInit ==
    /\ pc = "initAuth"
    /\ l = NoLocals
    /\ config = EnvConfig(NoLocals)
    /\ artifacts = NoArtifacts
    /\ disk = FreshDisk
    /\ fsLog = <<>>
    /\ prompts = <<>>
    /\ execLog = <<>>
    /\ error = NoError
    /\ exitCode = <<>>
    /\ \E email \in {Empty, <<"owner", AT, "deltas.dev">>},
          password \in {Empty, <<"s3cr3t!!">>},
          orgName \in {Empty, <<"Acme", SP, "Labs">>} :
          rt = [NoRuntime EXCEPT !.env =
                   (<<"ADMIN_EMAIL">> :> email) @@ (<<"ADMIN_PASSWORD">> :> password)
                   @@ (<<"ORG_NAME">> :> orgName)]

SpecAuth == AuthInit /\ [][InitAuth \/ RunMigrations]_vars

(***************************************************************************)
(* The parser on its own: main's loading step on a deltas/.env holding any *)
(* short text, the operator having declined to replace it.                 *)
(***************************************************************************)
\* Bound: the length of the .env texts the parser is tried on.
MaxText == 5

EnvTexts == UNION {[1..k -> Alphabet \cup {NL}] : k \in 0..MaxText}

ParseInit ==
    /\ pc = "basicConfiguration"
    /\ \E text \in EnvTexts :
          /\ disk = [FreshDisk EXCEPT !.deltasEnv = File(text), !.deltasDir = TRUE]
          /\ l = [NoLocals EXCEPT !.envCheck =
                     [appExists |-> FALSE, deltasExists |-> TRUE, shouldReplace |-> FALSE,
                      existingAppEnv |-> Empty, existingDeltasEnv |-> text]]
    /\ config = EnvConfig(NoLocals)
    /\ artifacts = NoArtifacts
    /\ fsLog = <<Fs("readFile", "app/.env", FALSE), Fs("readFile", "deltas/.env", TRUE)>>
    /\ prompts = <<P("Replace with new configuration?", No)>>
    /\ execLog = <<>>
    /\ error = NoError
    /\ exitCode = <<>>
    /\ rt = NoRuntime

ParseNext == BasicConfiguration

SpecParse == ParseInit /\ [][ParseNext]_vars

(***************************************************************************)
(* Properties.                                                             *)
(***************************************************************************)
\* The emitters have run.
Generated == artifacts.envContent # Empty

\* The emitters have just returned their texts.
Emitted == pc = "writeCompose"

StartsWith(text, prefix) ==
    Len(text) >= Len(prefix) /\ SubSeq(text, 1, Len(prefix)) = prefix

\* The service selection a compose block was emitted for.
ServiceOf(block) ==
    IF block.name = "db" THEN config.services.postgres ELSE config.services[block.name]

Blocks == {artifacts.dockerCompose.services[i] :
              i \in 1..Len(artifacts.dockerCompose.services)}

PortsOf(block) == {block.ports[i] : i \in 1..Len(block.ports)}

ContainerPort(pm) == SubSeq(pm, Max({i \in 1..Len(pm) : pm[i] = COLON}) + 1, Len(pm))

\* The (service name, container port) pairs containers can connect to.
Endpoints == UNION {{<<b.name, ContainerPort(pm)>> : pm \in PortsOf(b)} : b \in Blocks}

\* The host and the port of scheme://[user:pass@]host:port[/path].
UrlHostPort(url) ==
    LET ats   == {i \in 1..Len(url) : url[i] = AT}
        start == IF ats # {} THEN Max(ats)
                 ELSE Min({i \in 1..Len(url) : url[i] = "//"})
    IN  <<url[start + 1], <<url[start + 3]>> >>

\* The places the .env file (parsed as env) and nginx.conf tell containers to
\* connect to.
ReferencedEndpoints(env) ==
    (IF Enabled(config.services.postgres)
     THEN {UrlHostPort(env[<<"DATABASE_URL">>])} ELSE {})
    \cup (IF Enabled(config.services.redis)
          THEN {UrlHostPort(env[<<"REDIS_URL">>])} ELSE {})
    \cup (IF Enabled(config.services.clickhouse)
          THEN {<<env[<<"CLICKHOUSE_HOST">>][1], env[<<"CLICKHOUSE_PORT">>]>>,
                <<env[<<"CLICKHOUSE_HOST">>][1], env[<<"CLICKHOUSE_NATIVE_PORT">>]>>}
          ELSE {})
    \cup (IF Enabled(config.services.minio)
          THEN {UrlHostPort(env[<<"S3_ENDPOINT">>])} ELSE {})
    \cup (IF artifacts.nginxConf # <<>>
          THEN {<<u.server[1], <<u.server[3]>> >> :
                   u \in {artifacts.nginxConf[1].upstreams[i] :
                             i \in 1..Len(artifacts.nginxConf[1].upstreams)}}
          ELSE {})

\* C2: every host:port under which .env and nginx.conf tell containers to
\* reach a locally enabled service is the name of an emitted compose block
\* and a container-side port of one of its port mappings.
CrossArtifactConsistency ==
    Emitted =>
        LET env == parseEnvFile(artifacts.envContent)
        IN  ReferencedEndpoints(env) \subseteq Endpoints


\* The prompt log: what was shown and what the operator answered.
Shown(prompt) == \E i \in 1..Len(prompts) : prompts[i].id = prompt

Answered(prompt, answer) == \E i \in 1..Len(prompts) : prompts[i] = P(prompt, answer)

AnswerTo(prompt) == prompts[CHOOSE i \in 1..Len(prompts) : prompts[i].id = prompt].answer

\* The operator aborted the prompt shown last.
Cancelled == prompts # <<>> /\ prompts[Len(prompts)].answer = CtrlC

\* The fs log: the calls saveFiles made, and whether a call was made at all.
IsWrite(call) == call.op # "readFile"

Writes == SelectSeq(fsLog, IsWrite)

FsCalled(op, path) == \E i \in 1..Len(fsLog) : fsLog[i].op = op /\ fsLog[i].path = path

FsDone(op, path) == \E i \in 1..Len(fsLog) : fsLog[i] = Fs(op, path, TRUE)

\* saveFiles returned: its last call completed.
AllWritten == fsLog # <<>> /\ fsLog[Len(fsLog)] = Fs("writeFile", "deltas/.env", TRUE)

\* The run ended in success.
Succeeded == pc = "exited" /\ AllWritten

ApiAccepted == Answered("Deploy Deltas Ingestion server?", Yes)
AppAccepted == Answered("Deploy Deltas App ?", Yes)
NginxAccepted == Answered("Deploy Nginx reverse proxy?", Yes)

\* configureNginx has returned: the prompt that follows it was shown.
NginxDecided == Shown("PostgreSQL deployment:")

NginxIncluded == (ApiAccepted \/ AppAccepted) /\ NginxAccepted

\* C3: the nginx block is in the compose file, generateNginxConf is invoked
\* and nginx.conf is written if and only if the operator enabled the API or
\* the App and accepted the Nginx prompt; when neither is enabled the Nginx
\* prompt is never shown and nginx is absent from the model.
NginxInclusion ==
    /\ Shown("Deploy Nginx reverse proxy?") => l.api.present \/ l.app.present
    /\ NginxDecided => (l.nginx.present <=> NginxIncluded)
    /\ NginxDecided /\ ~(ApiAccepted \/ AppAccepted) =>
           ~Shown("Deploy Nginx reverse proxy?") /\ l.nginx = Absent
    /\ Generated =>
           /\ (\E b \in Blocks : b.name = "nginx") <=> NginxIncluded
           /\ artifacts.nginxConf # <<>> <=> NginxIncluded
           /\ config.services.nginx.present <=> NginxIncluded
    /\ FsCalled("writeFile", "nginx.conf") => NginxIncluded
    /\ Succeeded => (FsDone("writeFile", "nginx.conf") <=> NginxIncluded)

\* A run that deployed the App behind Nginx and wrote nginx.conf.
NginxInclusionWitness ==
    /\ Succeeded
    /\ AppAccepted /\ ~ApiAccepted /\ NginxAccepted
    /\ FsDone("writeFile", "nginx.conf")
    /\ \E b \in Blocks : b.name = "nginx"

\* An nginx.conf has the SSL block: a server listening on 443 with ssl and
\* the certificate directives.
SslBlock(conf) ==
    \E i \in 1..Len(conf.servers) :
        /\ conf.servers[i].ssl_certificate # ""
        /\ \E j \in 1..Len(conf.servers[i].listen) :
              conf.servers[i].listen[j] = Listen("443", TRUE)

ListensOn80Only(conf) ==
    \A i \in 1..Len(conf.servers) : \A j \in 1..Len(conf.servers[i].listen) :
        conf.servers[i].listen[j] \in {Listen("80", FALSE), Listen("[::]:80", FALSE)}

DomainGiven == Shown("Domain name:") /\ AnswerTo("Domain name:") \notin {Empty, CtrlC}

\* C4: the emitted nginx.conf has the SSL block if and only if the operator
\* gave a non-empty domain and accepted the SSL prompt; after an empty domain
\* the SSL prompt is never shown, SSL_ENABLED is "false" and every server
\* listens on port 80 only.
SslGating ==
    /\ Answered("Domain name:", Empty) => ~Shown("Enable SSL/TLS (HTTPS)?")
    /\ Generated /\ artifacts.nginxConf # <<>> =>
           LET conf == artifacts.nginxConf[1]
           IN  /\ SslBlock(conf) <=> DomainGiven /\ Answered("Enable SSL/TLS (HTTPS)?", Yes)
               /\ ~DomainGiven =>
                      /\ config.services.nginx.config.SSL_ENABLED = <<"false">>
                      /\ ListensOn80Only(conf)

\* A run whose nginx.conf has the SSL block.
SslGatingWitness ==
    /\ Generated /\ artifacts.nginxConf # <<>>
    /\ SslBlock(artifacts.nginxConf[1])
    /\ Answered("Domain name:", <<"deltas.dev">>)

\* C5: databaseUrl is derived from the Postgres selection: for a local
\* Postgres with user U, password P and database D it is
\* postgres://U:P@db:5432/D (root, pw, deltas give
\* postgres://root:pw@db:5432/deltas); for a hosted Postgres it is the
\* supplied URL verbatim; for a skipped Postgres it is the empty string.
DatabaseUrlDerivation ==
    Generated =>
        LET pg == config.services.postgres
        IN  /\ Answered("PostgreSQL deployment:", Local) =>
                 /\ config.databaseUrl =
                        <<"postgres", COLON, "//">> \o pg.config.POSTGRES_USER
                        \o <<COLON>> \o pg.config.POSTGRES_PASSWORD
                        \o <<AT, "db", COLON, "5432", SLASH>> \o pg.config.POSTGRES_DB
                 /\ (/\ AnswerTo("Postgres username:") = <<"root">>
                     /\ AnswerTo("Postgres password:") = <<"pw">>
                     /\ AnswerTo("Database name:") = <<"deltas">>) =>
                        config.databaseUrl =
                            <<"postgres", COLON, "//", "root", COLON, "pw", AT, "db",
                              COLON, "5432", SLASH, "deltas">>
            /\ Answered("PostgreSQL deployment:", Hosted) =>
                 /\ config.databaseUrl = pg.config.DATABASE_URL
                 /\ AnswerTo("Postgres connection URL:") # Empty =>
                        config.databaseUrl = AnswerTo("Postgres connection URL:")
            /\ Answered("PostgreSQL deployment:", Skip) => config.databaseUrl = Empty

\* A run in which the operator typed root, pw and deltas for a local Postgres.
DatabaseUrlWitness ==
    /\ Generated
    /\ Answered("PostgreSQL deployment:", Local)
    /\ Answered("Postgres username:", <<"root">>)
    /\ Answered("Postgres password:", <<"pw">>)
    /\ config.databaseUrl # Empty


\* The KEY="value" lines generateEnvFile pushed: the key and the text put
\* between the double quotes.
EmittedPairs ==
    LET lines == EnvFileLines(config)
    IN  {<<lines[i][1], SubSeq(lines[i], 4, Len(lines[i]) - 1)>> :
            i \in {j \in 1..Len(lines) : Len(lines[j]) >= 4 /\ lines[j][2] = EQ}}

\* C6: parseEnvFile applied to the text generateEnvFile emitted maps every
\* emitted key to exactly the value emitted for it.
EnvRoundTrip ==
    Emitted =>
        LET env == parseEnvFile(artifacts.envContent)
        IN  \A p \in EmittedPairs : <<p[1]>> \in DOMAIN env /\ env[<<p[1]>>] = p[2]

\* C7: the process ends with exit code 0 when saveFiles has written every
\* artifact and when the operator aborted a prompt, with exit code 1 after
\* every other error, and has no exit code while the wizard is running.
ExitCodes ==
    /\ pc # "exited" => exitCode = <<>> /\ error = NoError
    /\ pc = "exited" /\ (AllWritten \/ Cancelled) => exitCode = <<0>>
    /\ pc = "exited" /\ ~(AllWritten \/ Cancelled) => exitCode = <<1>> /\ error # NoError
    /\ pc = "exited" /\ Cancelled => error = ExitPromptError
    /\ pc = "exited" /\ AllWritten => error = NoError

\* The operator aborted the run at the SMTP prompt, the last one.
ExitCodesWitness ==
    /\ pc = "exited"
    /\ Answered("Configure SMTP settings?", CtrlC)
    /\ exitCode = <<0>>

\* The fs calls saveFiles makes for this run's model, in order.
IntendedWrites ==
    << <<"writeFile", "docker-compose.yaml">> >>
    \o (IF Enabled(config.services.nginx) THEN << <<"writeFile", "nginx.conf">> >> ELSE <<>>)
    \o << <<"mkdir", "app">>, <<"writeFile", "app/.env">>,
          <<"mkdir", "deltas">>, <<"writeFile", "deltas/.env">> >>

\* What a completed fs call of saveFiles leaves on disk.
Kept(call) ==
    IF call.path = "docker-compose.yaml" THEN disk.compose = File(artifacts.dockerCompose)
    ELSE IF call.path = "nginx.conf" THEN disk.nginx = File(artifacts.nginxConf)
    ELSE IF call.path = "app" THEN disk.appDir
    ELSE IF call.path = "app/.env" THEN disk.appEnv = File(artifacts.envContent)
    ELSE IF call.path = "deltas" THEN disk.deltasDir
    ELSE disk.deltasEnv = File(artifacts.envContent)

\* C8: saveFiles issues its fs calls in the order docker-compose.yaml,
\* nginx.conf (only with Nginx enabled), app/, app/.env, deltas/, deltas/.env;
\* when a call fails no later call is made, the process exits with code 1,
\* and what the earlier calls wrote stays on disk.
WriterFailure ==
    /\ Len(Writes) <= Len(IntendedWrites)
    /\ \A i \in 1..Len(Writes) :
          /\ <<Writes[i].op, Writes[i].path>> = IntendedWrites[i]
          /\ Writes[i].ok => Kept(Writes[i])
          /\ ~Writes[i].ok => i = Len(Writes) /\ pc = "exited" /\ exitCode = <<1>>

\* The write of app/.env failed after docker-compose.yaml and nginx.conf
\* were written.
WriterFailureWitness ==
    /\ pc = "exited" /\ exitCode = <<1>>
    /\ Len(Writes) = 4 /\ Writes[4] = Fs("writeFile", "app/.env", FALSE)
    /\ disk.compose = File(artifacts.dockerCompose)
    /\ disk.nginx = File(artifacts.nginxConf)

\* C9 as stated: every failed fs call, a failed read of app/.env or
\* deltas/.env included, is the last fs call of the run and ends it with
\* exit code 1.
EveryFsErrorFatal ==
    \A i \in 1..Len(fsLog) :
        ~fsLog[i].ok => i = Len(fsLog) /\ pc = "exited" /\ exitCode = <<1>>

\* checkExistingEnv has returned: the prompt that follows it was shown.
EnvChecked == Shown("Application origin URL:")

\* C9, amended: every failed file write or directory creation is the last fs
\* call of the run and ends it with exit code 1; a failed read of app/.env
\* or deltas/.env does not end the run: the file counts as absent.
FsWriteErrorsFatal ==
    /\ \A i \in 1..Len(fsLog) :
          ~fsLog[i].ok /\ IsWrite(fsLog[i]) =>
              i = Len(fsLog) /\ pc = "exited" /\ exitCode = <<1>>
    /\ \A i \in 1..Len(fsLog) :
          ~fsLog[i].ok /\ ~IsWrite(fsLog[i]) =>
              /\ pc = "exited" /\ ~IsWrite(fsLog[Len(fsLog)]) =>
                    error \in {ExitPromptError, ExecError}
              /\ EnvChecked =>
                    IF fsLog[i].path = "app/.env"
                    THEN ~l.envCheck.appExists /\ l.envCheck.existingAppEnv = Empty
                    ELSE ~l.envCheck.deltasExists /\ l.envCheck.existingDeltasEnv = Empty

\* A run that could not read the app/.env that is on disk and went on to
\* write every artifact.
FsWriteErrorsFatalWitness ==
    /\ Succeeded /\ exitCode = <<0>>
    /\ fsLog[1] = Fs("readFile", "app/.env", FALSE)
    /\ "app/.env" \in disk.unreadable

\* C10: after a run that ended in success docker-compose.yaml holds the
\* output of generateDockerCompose, app/.env and deltas/.env both hold the
\* one output of generateEnvFile for the run's model, and nginx.conf was
\* written in the run only if the model's Nginx service is enabled.
WriterOutputs ==
    /\ Succeeded =>
          /\ disk.compose = File(generateDockerCompose(config))
          /\ disk.appEnv = File(generateEnvFile(config))
          /\ disk.deltasEnv = disk.appEnv
          /\ disk.appDir /\ disk.deltasDir
          /\ Enabled(config.services.nginx) =>
                 disk.nginx = File(<<generateNginxConf(config)>>)
    /\ FsCalled("writeFile", "nginx.conf") => Enabled(config.services.nginx)

\* A successful run without Nginx over the files of an earlier run: both
\* .env files are replaced and the earlier nginx.conf is left as it was.
WriterOutputsWitness ==
    /\ Succeeded
    /\ ~Enabled(config.services.nginx)
    /\ disk.nginx = PreviousDisk.nginx
    /\ disk.appEnv # PreviousDisk.appEnv
    /\ disk.appEnv = disk.deltasEnv

\* The names of the emitted service blocks, in the order of the file.
BlockNames ==
    [i \in 1..Len(artifacts.dockerCompose.services) |-> artifacts.dockerCompose.services[i].name]

\* The fixed order of the compose services, with the selection of each.
ServiceOrder ==
    << <<"nginx", config.services.nginx>>, <<"api", config.services.api>>,
       <<"app", config.services.app>>, <<"db", config.services.postgres>>,
       <<"redis", config.services.redis>>, <<"clickhouse", config.services.clickhouse>>,
       <<"minio", config.services.minio>> >>

IsSelected(entry) == entry[2].present /\ entry[2].enabled

\* C11: the compose file has exactly one block for each service whose
\* selection is present with enabled = true, none for an absent or hosted
\* service, and the blocks are in the order nginx, api, app, db, redis,
\* clickhouse, minio.
ComposeServiceBlocks ==
    Emitted =>
        LET selected == SelectSeq(ServiceOrder, IsSelected)
        IN  BlockNames = [i \in 1..Len(selected) |-> selected[i][1]]

\* A compose file with a block for a local Redis and none for the hosted
\* Postgres of the same model.
ComposeServiceBlocksWitness ==
    /\ Emitted
    /\ config.services.postgres.present /\ ~config.services.postgres.enabled
    /\ Enabled(config.services.redis) /\ Enabled(config.services.api)
    /\ BlockNames = <<"api", "redis">>

\* The depends_on entries of the emitted block of a service.
DependsOn(name) ==
    LET b == CHOOSE b \in Blocks : b.name = name
    IN  {b.depends_on[i] : i \in 1..Len(b.depends_on)}

\* The names among `names` whose service is enabled in the model.
EnabledAmong(names) == {n \in names : Enabled(ServiceOf([name |-> n]))}

\* C12: in the compose file nginx depends on exactly the enabled ones of
\* api and app, api on exactly the enabled ones of db, redis and clickhouse,
\* app on api exactly when api is enabled, and every dependency listed is the
\* name of a block of the same file.
ComposeDependencyEdges ==
    Emitted =>
        /\ \A b \in Blocks :
              /\ b.name = "nginx" => DependsOn("nginx") = EnabledAmong({"api", "app"})
              /\ b.name = "api" => DependsOn("api") = EnabledAmong({"db", "redis", "clickhouse"})
              /\ b.name = "app" => DependsOn("app") = EnabledAmong({"api"})
              /\ b.name \notin {"nginx", "api", "app"} => b.depends_on = <<>>
              /\ \A i \in 1..Len(b.depends_on) : \E d \in Blocks : d.name = b.depends_on[i]
              /\ \A i, j \in 1..Len(b.depends_on) : b.depends_on[i] = b.depends_on[j] => i = j

\* A compose file in which nginx depends on api and app, and api on db and
\* clickhouse but not on the hosted Redis.
ComposeDependencyEdgesWitness ==
    /\ Emitted
    /\ \E b \in Blocks : b.name = "nginx" /\ b.depends_on = <<"api", "app">>
    /\ config.services.redis.present
    /\ \E b \in Blocks : b.name = "api" /\ b.depends_on = <<"db", "clickhouse">>

\* The lines of the emitted .env document that assign to key.
LinesOf(lines, key) ==
    {i \in 1..Len(lines) : Len(lines[i]) >= 2 /\ lines[i][1] = key /\ lines[i][2] = EQ}

ClickHouseKeys ==
    {"CLICKHOUSE_HOST", "CLICKHOUSE_PORT", "CLICKHOUSE_NATIVE_PORT", "CLICKHOUSE_USER",
     "CLICKHOUSE_PASSWORD", "CLICKHOUSE_DATABASE"}

S3Keys == {"S3_ENDPOINT", "S3_ACCESS_KEY", "S3_SECRET_KEY", "S3_BUCKET"}

SmtpKeys == {"SMTP_HOST", "SMTP_PORT", "SMTP_FROM", "SMTP_USER", "SMTP_PASSWORD"}

AlwaysKeys ==
    {"DATABASE_URL", "ORIGIN", "BETTER_AUTH_SECRET", "ADMIN_EMAIL", "ADMIN_PASSWORD",
     "ORG_NAME", "REDIS_URL"} \cup ClickHouseKeys \cup S3Keys \cup SmtpKeys

PostgresKeys == {"POSTGRES_USER", "POSTGRES_PASSWORD", "POSTGRES_DB"}

\* C13: the emitted .env document has each of DATABASE_URL, ORIGIN,
\* BETTER_AUTH_SECRET, ADMIN_EMAIL, ADMIN_PASSWORD, ORG_NAME, REDIS_URL, the
\* six CLICKHOUSE_ keys, the four S3_ keys and the five SMTP_ keys exactly
\* once whatever is enabled, with the empty string as value for a skipped
\* service; the three POSTGRES_ keys are there, once each, if and only if
\* Postgres is enabled locally.
EnvKeySet ==
    Emitted =>
        LET text == artifacts.envContent
            EndsAt(p) == p = Len(text) \/ text[p + 1] = NL
            \* where a line KEY=... starts
            starts == {p \in 1..(Len(text) - 1) :
                          text[p + 1] = EQ /\ (p = 1 \/ text[p - 1] = NL)}
            Count(key) == Cardinality({p \in starts : text[p] = key})
            IsEmpty(key) ==
                \A p \in starts :
                    text[p] = key =>
                        p + 3 <= Len(text) /\ text[p + 2] = DQ /\ text[p + 3] = DQ /\ EndsAt(p + 3)
        IN  /\ \A key \in AlwaysKeys : Count(key) = 1
            /\ \A key \in PostgresKeys :
                  Count(key) = IF Enabled(config.services.postgres) THEN 1 ELSE 0
            /\ ~config.services.postgres.present => IsEmpty("DATABASE_URL")
            /\ ~config.services.redis.present => IsEmpty("REDIS_URL")
            /\ ~config.services.clickhouse.present => \A key \in ClickHouseKeys : IsEmpty(key)
            /\ ~config.services.minio.present => \A key \in S3Keys : IsEmpty(key)

\* A .env document for a model with every infrastructure service skipped.
EnvKeySetWitness ==
    /\ Emitted
    /\ ~config.services.postgres.present /\ ~config.services.redis.present
    /\ ~config.services.clickhouse.present /\ ~config.services.minio.present
    /\ Enabled(config.services.api)
    /\ Len(Split(artifacts.envContent)) > Cardinality(AlwaysKeys)

\* The ADMIN_PASSWORD of the saved configuration in use.
SavedAdminPassword == EnvGet(l.existingEnv, "ADMIN_PASSWORD")

\* C14 as stated: a supplied password is accepted only with at least 8
\* characters; an empty entry is accepted and resolves to the saved
\* ADMIN_PASSWORD when there is one and to StrongPassword123 when there is
\* none; the resulting password is never empty and the resulting email
\* contains "@".
AdminPasswordAsClaimed ==
    pc = "configureAdmin" =>
        \A a \in AdminTyped :
            /\ a.password # Empty =>
                   (PasswordValid(a.password, l.existingEnv) <=> Len(a.password) >= 8)
            /\ a.password = Empty =>
                   /\ PasswordValid(a.password, l.existingEnv)
                   /\ configureAdmin(l.existingEnv, a).password =
                          IF SavedAdminPassword # Empty THEN SavedAdminPassword
                          ELSE <<"StrongPassword123">>

\* C14, amended: a supplied password is accepted only with at least 8
\* characters; an empty entry is accepted only when a saved ADMIN_PASSWORD
\* exists, and then resolves to it; without a saved password an empty entry
\* is rejected, so StrongPassword123 is never the result of an empty entry;
\* the resulting password is never empty and the resulting email contains "@".
AdminPasswordResolution ==
    /\ pc = "configureAdmin" =>
          \A a \in AdminTyped :
              /\ a.password # Empty =>
                     (PasswordValid(a.password, l.existingEnv) <=> Len(a.password) >= 8)
              /\ a.password = Empty =>
                     (PasswordValid(a.password, l.existingEnv) <=> SavedAdminPassword # Empty)
              /\ a \in AdminAnswers(l.existingEnv) =>
                     LET r == configureAdmin(l.existingEnv, a)
                     IN  /\ r.password = IF a.password # Empty THEN a.password
                                         ELSE SavedAdminPassword
                         /\ r.password # Empty
                         /\ Includes(r.email, AT)
    /\ Shown("Organization name:") =>
          LET typed == AnswerTo("Admin password:")
          IN  /\ typed = Empty => SavedAdminPassword # Empty
              /\ typed # Empty => Len(typed) >= 8
    /\ Shown("Deploy Deltas Ingestion server?") =>
          LET typed == AnswerTo("Admin password:")
          IN  /\ l.adminConfig.password = IF typed # Empty THEN typed ELSE SavedAdminPassword
              /\ l.adminConfig.password # Empty
              /\ Includes(l.adminConfig.email, AT)

\* A run in which the operator left the password empty and the saved one was
\* kept.
AdminPasswordWitness ==
    /\ Shown("Deploy Deltas Ingestion server?")
    /\ Answered("Admin password:", Empty)
    /\ l.adminConfig.password = <<"OldPassw0rd">>

\* The operator declined to replace the saved configuration.
Declined == Answered("Replace with new configuration?", No)

\* saved || literal
Preferred(env, key, literal) == OrElse(EnvGet(env, key), literal)

\* The overwrite question is asked exactly when one of the two reads
\* succeeded, and what was read is what the disk held.
OverwriteAsked ==
    /\ Len(fsLog) >= 2 =>
          (Shown("Replace with new configuration?") <=> fsLog[1].ok \/ fsLog[2].ok)
    /\ pc = "basicConfiguration" =>
          /\ fsLog[1].ok = ReadOk(disk.appEnv, "app/.env")
          /\ fsLog[2].ok = ReadOk(disk.deltasEnv, "deltas/.env")
          /\ l.envCheck.appExists = fsLog[1].ok
          /\ l.envCheck.deltasExists = fsLog[2].ok
          /\ fsLog[1].ok => l.envCheck.existingAppEnv = disk.appEnv[1]
          /\ fsLog[2].ok => l.envCheck.existingDeltasEnv = disk.deltasEnv[1]

\* Every text prompt left empty, and every fallback, takes the value env
\* holds for its key, and the literal only when env holds none.
DefaultsFrom(env) ==
    Emitted =>
        LET s == config.services
        IN  /\ Answered("Application origin URL:", Empty) =>
                  config.origin = Preferred(env, "ORIGIN",
                                      <<"http", COLON, "//", "localhost", COLON, "5173">>)
            /\ EnvGet(env, "BETTER_AUTH_SECRET") # Empty =>
                  config.betterAuthSecret = EnvGet(env, "BETTER_AUTH_SECRET")
            /\ Answered("Admin email:", Empty) =>
                  config.adminEmail = Preferred(env, "ADMIN_EMAIL", <<"admin", AT, "deltas.email">>)
            /\ Answered("Admin password:", Empty) =>
                  config.adminPassword = EnvGet(env, "ADMIN_PASSWORD")
            /\ Answered("Organization name:", Empty) =>
                  config.orgName = Preferred(env, "ORG_NAME", <<"Deltas">>)
            /\ Answered("API port:", Empty) =>
                  s.api.config.API_PORT = Preferred(env, "API_PORT", <<"3000">>)
            /\ Answered("App port:", Empty) =>
                  s.app.config.APP_PORT = Preferred(env, "APP_PORT", <<"5173">>)
            /\ Answered("Postgres username:", Empty) =>
                  s.postgres.config.POSTGRES_USER = Preferred(env, "POSTGRES_USER", <<"root">>)
            /\ Answered("Postgres password:", Empty) =>
                  s.postgres.config.POSTGRES_PASSWORD =
                      Preferred(env, "POSTGRES_PASSWORD", <<"mysecretpassword">>)
            /\ Answered("Database name:", Empty) =>
                  s.postgres.config.POSTGRES_DB = Preferred(env, "POSTGRES_DB", <<"deltas">>)
            /\ Answered("Postgres connection URL:", Empty) =>
                  s.postgres.config.DATABASE_URL =
                      Preferred(env, "DATABASE_URL",
                                <<"postgres", COLON, "//", "user", COLON, "pass", AT,
                                  "host", COLON, "5432", SLASH, "db">>)
            /\ Answered("Redis connection URL:", Empty) =>
                  s.redis.config.REDIS_URL =
                      Preferred(env, "REDIS_URL",
                                <<"redis", COLON, "//", "localhost", COLON, "6379">>)
            /\ Answered("ClickHouse password:", Empty) =>
                  s.clickhouse.config.CLICKHOUSE_PASSWORD =
                      Preferred(env, "CLICKHOUSE_PASSWORD",
                                IF Enabled(s.clickhouse) THEN <<"clickhouse">> ELSE Empty)
            /\ Answered("MinIO access key:", Empty) =>
                  s.minio.config.S3_ACCESS_KEY = Preferred(env, "S3_ACCESS_KEY", <<"minioadmin">>)
            /\ Answered("S3 bucket name:", Empty) =>
                  s.minio.config.S3_BUCKET = EnvGet(env, "S3_BUCKET")
            /\ Answered("Configure SMTP settings?", No) =>
                  config.smtpHost = EnvGet(env, "SMTP_HOST")
            /\ Answered("SMTP host:", Empty) =>
                  config.smtpHost = Preferred(env, "SMTP_HOST", <<"localhost">>)

\* The saved file of C15 as stated: app/.env when it was read, otherwise
\* deltas/.env; none when the operator accepted or nothing was read.
SavedFileAsClaimed ==
    IF ~Declined THEN NoEnv
    ELSE IF l.envCheck.appExists THEN parseEnvFile(l.envCheck.existingAppEnv)
    ELSE parseEnvFile(l.envCheck.existingDeltasEnv)

\* C15 as stated: the overwrite question is asked iff app/.env or deltas/.env
\* is readable; when the operator declines, every later prompt default and
\* fallback comes from the parsed saved file (app/.env when it was read,
\* otherwise deltas/.env) in preference to the literal; when the operator
\* accepts, or no file exists, no saved value is used.
SavedConfigurationAsClaimed ==
    /\ OverwriteAsked
    /\ pc = "betterAuthSecret" \/ Emitted => l.existingEnv = SavedFileAsClaimed
    /\ DefaultsFrom(l.existingEnv)
    /\ Emitted /\ Answered("Domain name:", Empty) /\ config.services.nginx.present =>
          config.services.nginx.config.DOMAIN =
              Preferred(l.existingEnv, "DOMAIN", <<"localhost">>)

\* The saved file main loads: app/.env when it was read and is not empty,
\* otherwise deltas/.env when it was read.
SavedFileInUse ==
    IF ~Declined THEN NoEnv
    ELSE IF l.envCheck.existingAppEnv # Empty THEN parseEnvFile(l.envCheck.existingAppEnv)
    ELSE parseEnvFile(l.envCheck.existingDeltasEnv)

\* C15, amended: the overwrite question is asked iff app/.env or deltas/.env
\* is readable; when the operator declines, the saved file is app/.env when
\* it was read and is not empty and otherwise deltas/.env, and every later
\* text prompt default and fallback other than the Nginx domain comes from
\* it in preference to the literal; the Nginx domain left empty is localhost
\* whatever the saved file holds; when the operator accepts, or no file
\* exists, no saved value is used.
SavedConfiguration ==
    /\ OverwriteAsked
    /\ pc = "betterAuthSecret" \/ Emitted => l.existingEnv = SavedFileInUse
    /\ DefaultsFrom(l.existingEnv)
    /\ Emitted /\ Answered("Domain name:", Empty) /\ config.services.nginx.present =>
          config.services.nginx.config.DOMAIN = <<"localhost">>

\* A run that kept the saved configuration although app/.env was read as
\* empty: the defaults came from deltas/.env.
SavedConfigurationWitness ==
    /\ Emitted
    /\ Declined
    /\ l.envCheck.appExists
    /\ l.envCheck.existingAppEnv = Empty
    /\ Answered("Application origin URL:", Empty)
    /\ config.origin = <<"https", COLON, "//", "old.deltas.dev">>

\* How the contract of C16 reads one line of the file.
ContractLine(line) ==
    LET t    == Trim(line)
        eqs  == {i \in 1..Len(t) : t[i] = EQ}
        i    == IF eqs = {} THEN 0 ELSE Min(eqs)
        rest == IF i = 0 THEN Empty ELSE SubSeq(t, i + 1, Len(t))
        both == Len(rest) >= 2 /\ IsQuote(rest[1]) /\ IsQuote(rest[Len(rest)])
        wrapped == both /\ rest[Len(rest)] = rest[1]
        inner   == IF both THEN SubSeq(rest, 2, Len(rest) - 1) ELSE rest
    IN  [form       |-> t # Empty /\ t[1] # HASH /\ i > 1,
         key        |-> IF i > 1 THEN SubSeq(t, 1, i - 1) ELSE Empty,
         wellFormed |-> IF wrapped THEN \A j \in 1..Len(inner) : inner[j] # rest[1]
                        ELSE \A j \in 1..Len(rest) : ~IsQuote(rest[j]),
         mismatched |-> both /\ ~wrapped,
         value      |-> IF wrapped THEN inner ELSE rest,
         stripped   |-> inner]

\* C16: each non-blank line that does not start with "#" and has the form
\* KEY=VALUE, VALUE optionally wrapped in one pair of matching quotes, yields
\* the entry KEY -> VALUE with that layer of quotes removed; blank lines,
\* comment lines and lines without KEY= yield no entry; a line whose opening
\* and closing quote characters differ is not read as a quoted value.  (Of
\* two lines with one key the later wins, so a line is judged when no other
\* line has its key.)
ParseContract ==
    pc = "betterAuthSecret" =>
        LET lines == Split(l.envCheck.existingDeltasEnv)
            c     == [n \in 1..Len(lines) |-> ContractLine(lines[n])]
            Alone(n) == \A m \in 1..Len(lines) : m # n /\ c[m].form => c[m].key # c[n].key
            env   == l.existingEnv
        IN  /\ \A k \in DOMAIN env : \E n \in 1..Len(lines) : c[n].form /\ c[n].key = k
            /\ \A n \in 1..Len(lines) :
                  c[n].form /\ Alone(n) =>
                      /\ c[n].wellFormed =>
                            c[n].key \in DOMAIN env /\ env[c[n].key] = c[n].value
                      /\ c[n].mismatched =>
                            c[n].key \notin DOMAIN env \/ env[c[n].key] # c[n].stripped

\* The run of C17: nothing saved, API on its default port, no App, Nginx
\* with an empty domain, a local Postgres with every entry left empty and
\* not exposed, the other services skipped, SMTP declined.
ApiBehindNginxRun ==
    /\ ~Shown("Replace with new configuration?")
    /\ ApiAccepted /\ Answered("API port:", Empty)
    /\ Answered("Deploy Deltas App ?", No)
    /\ NginxAccepted /\ Answered("Domain name:", Empty)
    /\ Answered("PostgreSQL deployment:", Local)
    /\ Answered("Postgres username:", Empty)
    /\ Answered("Postgres password:", Empty)
    /\ Answered("Database name:", Empty)
    /\ Answered("Expose Postgres to internet?", No)
    /\ Answered("Redis deployment:", Skip)
    /\ Answered("ClickHouse deployment:", Skip)
    /\ Answered("MinIO/S3 deployment:", Skip)
    /\ Answered("Configure SMTP settings?", No)

NoWriteFailed == \A i \in 1..Len(fsLog) : IsWrite(fsLog[i]) => fsLog[i].ok

\* C17: the run above, once the emitters have run, has produced the texts
\* that follow and, when no file write fails, ends with exit code 0; its
\* docker-compose.yaml has exactly the blocks nginx, api, db in that order;
\* its nginx.conf has the API upstream and the /post/-/get/ location, no App
\* upstream or location and no SSL block; its .env has POSTGRES_PASSWORD
\* mysecretpassword, DATABASE_URL postgres://root:mysecretpassword@db:5432/deltas
\* and empty REDIS_URL, S3_* and CLICKHOUSE_* values.
ApiBehindNginxScenario ==
    ApiBehindNginxRun /\ pc # "generate" =>
        /\ Generated
        /\ pc = "exited" /\ NoWriteFailed => exitCode = <<0>> /\ AllWritten
        /\ BlockNames = <<"nginx", "api", "db">>
        /\ artifacts.nginxConf # <<>>
        /\ LET conf  == artifacts.nginxConf[1]
               locs  == UNION {{s.locations[j] : j \in 1..Len(s.locations)} :
                                  s \in {conf.servers[i] : i \in 1..Len(conf.servers)}}
               names == {conf.upstreams[i].name : i \in 1..Len(conf.upstreams)}
           IN  /\ names = {"api"}
               /\ \E loc \in locs : loc.match = "~ ^/(post|get)/" /\ loc.proxy_pass = "http://api"
               /\ \A loc \in locs : loc.match # "/" /\ loc.proxy_pass # "http://app"
               /\ ~SslBlock(conf)
        /\ LET lines == Split(artifacts.envContent)
               Line(key, value) == \E i \in 1..Len(lines) : lines[i] = EnvLine(key, value)
           IN  /\ Line("POSTGRES_PASSWORD", <<"mysecretpassword">>)
               /\ Line("DATABASE_URL",
                       <<"postgres", COLON, "//", "root", COLON, "mysecretpassword", AT,
                         "db", COLON, "5432", SLASH, "deltas">>)
               /\ \A key \in {"REDIS_URL"} \cup S3Keys \cup ClickHouseKeys :
                     /\ Line(key, Empty)
                     /\ Cardinality(LinesOf(lines, key)) = 1

\* The run of C17, ended with all four files written.
ApiBehindNginxWitness ==
    /\ ApiBehindNginxRun
    /\ Succeeded
    /\ exitCode = <<0>>
    /\ disk.nginx = File(artifacts.nginxConf)

\* The locations of every server block of an nginx.conf, and the names of
\* its upstream blocks.
LocationsOf(conf) ==
    UNION {{conf.servers[i].locations[j] : j \in 1..Len(conf.servers[i].locations)} :
              i \in 1..Len(conf.servers)}

UpstreamsOf(conf) == {conf.upstreams[i].name : i \in 1..Len(conf.upstreams)}

\* C18: in the nginx.conf emitted for any model, the API upstream and the
\* /post/-or-/get/ location are present iff API is enabled; the App upstream
\* and the catch-all / location are present iff App is enabled; only the
\* /post/-or-/get/ location passes to the API upstream; the /health location
\* returning a static 200 is always present.
NginxRouting ==
    Emitted =>
        LET conf == generateNginxConf(config)
            locs == LocationsOf(conf)
        IN  /\ "api" \in UpstreamsOf(conf) <=> Enabled(config.services.api)
            /\ (\E loc \in locs : loc.match = "~ ^/(post|get)/") <=> Enabled(config.services.api)
            /\ "app" \in UpstreamsOf(conf) <=> Enabled(config.services.app)
            /\ (\E loc \in locs : loc.match = "/") <=> Enabled(config.services.app)
            /\ \A loc \in locs :
                  /\ loc.proxy_pass = "http://api" => loc.match = "~ ^/(post|get)/"
                  /\ loc.match = "~ ^/(post|get)/" => loc.proxy_pass = "http://api"
                  /\ loc.match = "/" => loc.proxy_pass = "http://app"
            /\ \E loc \in locs :
                  loc.match = "/health" /\ loc.return = "200" /\ loc.proxy_pass = ""
            /\ artifacts.nginxConf # <<>> => artifacts.nginxConf[1] = conf

\* An emitted nginx.conf for API without App: the API upstream and its
\* location, the health location, and nothing for the App.
NginxRoutingWitness ==
    /\ Emitted
    /\ artifacts.nginxConf # <<>>
    /\ Enabled(config.services.api) /\ ~Enabled(config.services.app)
    /\ UpstreamsOf(artifacts.nginxConf[1]) = {"api"}
    /\ Cardinality(LocationsOf(artifacts.nginxConf[1])) = 2

SslRequested == Answered("Enable SSL/TLS (HTTPS)?", Yes)

\* A redirect-only server block: port 80, no location, 301 to the https URL.
IsRedirect(server) ==
    /\ server.return = "301 https://$server_name$request_uri"
    /\ server.locations = <<>>
    /\ server.listen = <<Listen("80", FALSE), Listen("[::]:80", FALSE)>>

\* C19: the emitted nginx.conf has a second, redirect-only server block on
\* port 80 returning 301 to the https URL iff SSL was requested; SSL is
\* requested only after a non-empty domain, and that domain is then the
\* server_name of both server blocks.
RedirectHost ==
    /\ SslRequested => DomainGiven
    /\ Generated /\ artifacts.nginxConf # <<>> =>
          LET servers == artifacts.nginxConf[1].servers
          IN  /\ (\E i \in 1..Len(servers) : IsRedirect(servers[i])) <=> SslRequested
              /\ Len(servers) = IF SslRequested THEN 2 ELSE 1
              /\ ~IsRedirect(servers[Len(servers)])
              /\ SslRequested =>
                    /\ IsRedirect(servers[1])
                    /\ \A i \in 1..Len(servers) :
                          servers[i].server_name = AnswerTo("Domain name:")
    /\ Generated /\ SslRequested => artifacts.nginxConf # <<>>

\* A finished run with SSL requested for deltas.dev: two server blocks.
RedirectHostWitness ==
    /\ Succeeded
    /\ SslRequested
    /\ Len(artifacts.nginxConf[1].servers) = 2
    /\ artifacts.nginxConf[1].servers[1].server_name = <<"deltas.dev">>
    /\ IsRedirect(artifacts.nginxConf[1].servers[1])

Declared ==
    {artifacts.dockerCompose.volumes[i] : i \in 1..Len(artifacts.dockerCompose.volumes)}

\* The mount sources that are paths of the host, not named volumes.
HostPaths == {"./nginx.conf"}

\* The named volumes a service block mounts.
NamedVolumes(block) ==
    {block.volumes[i].source : i \in 1..Len(block.volumes)} \ HostPaths

Mounted == UNION {NamedVolumes(b) : b \in Blocks}

\* C22: the volumes section of the compose file declares nginx_logs iff
\* nginx is enabled, pgdata iff postgres, redis_data iff redis,
\* clickhouse_data and clickhouse_logs iff clickhouse, minio_data iff minio,
\* each once and nothing else; the declared volumes are exactly the named
\* volumes the emitted blocks mount; the section is written iff a volume is
\* declared; the api and app blocks mount nothing.
ComposeVolumeDeclarations ==
    Emitted =>
        /\ "nginx_logs" \in Declared <=> Enabled(config.services.nginx)
        /\ "pgdata" \in Declared <=> Enabled(config.services.postgres)
        /\ "redis_data" \in Declared <=> Enabled(config.services.redis)
        /\ "clickhouse_data" \in Declared <=> Enabled(config.services.clickhouse)
        /\ "clickhouse_logs" \in Declared <=> Enabled(config.services.clickhouse)
        /\ "minio_data" \in Declared <=> Enabled(config.services.minio)
        /\ Declared \subseteq {"nginx_logs", "pgdata", "redis_data", "clickhouse_data",
                               "clickhouse_logs", "minio_data"}
        /\ Cardinality(Declared) = Len(artifacts.dockerCompose.volumes)
        /\ Mounted = Declared
        /\ artifacts.dockerCompose.volumesSection <=>
              \E s \in {config.services.nginx, config.services.postgres,
                        config.services.redis, config.services.clickhouse,
                        config.services.minio} : Enabled(s)
        /\ \A b \in Blocks : b.name \in {"api", "app"} => b.volumes = <<>>

\* A compose file for nginx, the api and a local ClickHouse with a hosted
\* Postgres: three volumes declared, the nginx.conf bind mount not among them.
ComposeVolumeDeclarationsWitness ==
    /\ Emitted
    /\ Enabled(config.services.nginx) /\ Enabled(config.services.api)
    /\ config.services.postgres.present /\ ~config.services.postgres.enabled
    /\ artifacts.dockerCompose.volumes = <<"nginx_logs", "clickhouse_data", "clickhouse_logs">>
    /\ artifacts.dockerCompose.volumesSection

(***************************************************************************)
(* The auth secret                                                         *)
(***************************************************************************)
\* The saved secret in use: the BETTER_AUTH_SECRET of the loaded saved file
\* when the operator declined to replace it, none otherwise.
SavedSecret ==
    IF Declined THEN EnvGet(l.existingEnv, "BETTER_AUTH_SECRET") ELSE Empty

\* The secret step of main has run: the run has a secret or the command
\* has failed.
SecretStepTaken == l.betterAuthSecret # Empty \/ error = ExecError

\* C23: the secret-generation command is invoked, once, iff no non-empty
\* saved BETTER_AUTH_SECRET is in use; a saved secret in use is reused
\* verbatim and reaches the emitted configuration unchanged; when the
\* command fails the run ends with exit code 1, the origin prompt stays
\* the last prompt shown and nothing is written or created on disk.
AuthSecret ==
    /\ ~SecretStepTaken => execLog = <<>>
    /\ SecretStepTaken =>
          /\ execLog # <<>> <=> SavedSecret = Empty
          /\ Len(execLog) <= 1
          /\ SavedSecret # Empty => l.betterAuthSecret = SavedSecret
          /\ execLog = <<TRUE>> => l.betterAuthSecret = FreshSecret
          /\ Emitted => config.betterAuthSecret = l.betterAuthSecret
    /\ execLog = <<FALSE>> =>
          /\ pc = "exited" /\ exitCode = <<1>>
          /\ prompts[Len(prompts)].id = "Application origin URL:"
          /\ prompts[Len(prompts)].answer # CtrlC
          /\ Writes = <<>>
          /\ disk \in InitialDisks
          /\ artifacts = NoArtifacts

\* A run over a saved file whose secret is empty: the operator declined to
\* replace it, the command was invoked and failed.
AuthSecretWitness ==
    /\ Declined
    /\ disk = HandWrittenDisk
    /\ execLog = <<FALSE>>
    /\ pc = "exited" /\ exitCode = <<1>>

(***************************************************************************)
(* Cancellation and the disk                                               *)
(***************************************************************************)
\* The operator answered the last prompt of the last section.
PromptsComplete ==
    /\ prompts # <<>>
    /\ ~Cancelled
    /\ prompts[Len(prompts)].id = "SMTP password:"
       \/ prompts[Len(prompts)] = P("Configure SMTP settings?", No)

\* A run that ended by the operator's cancellation has called no write and
\* no mkdir and has emitted nothing; once a write or a mkdir has been called
\* the prompt log is complete.
CancelledBeforeWrites ==
    /\ Writes # <<>> => PromptsComplete
    /\ pc = "exited" /\ error = ExitPromptError =>
          /\ Cancelled
          /\ Writes = <<>>
          /\ artifacts = NoArtifacts

\* C24: every prompt precedes the first write: once a write or a mkdir has
\* been called the prompt log is complete and no step adds a prompt to it; a
\* run that ended by the operator's cancellation has called no write and no
\* mkdir; and a step after which no write or mkdir has been called leaves
\* docker-compose.yaml, nginx.conf, app/.env, deltas/.env and the
\* directories as they were, so that run leaves the disk as it found it.
CancellationLeavesDisk ==
    /\ []CancelledBeforeWrites
    /\ [][/\ Writes' = <<>> => disk' = disk
          /\ Writes # <<>> => prompts' = prompts]_vars

\* The latest cancellation there is: the operator went through every
\* section over the saved files of an earlier run and aborted the first
\* SMTP prompt.
CancellationLeavesDiskWitness ==
    /\ pc = "exited" /\ error = ExitPromptError /\ exitCode = <<0>>
    /\ prompts[Len(prompts)] = P("Configure SMTP settings?", CtrlC)
    /\ disk = PreviousDisk
    /\ Len(fsLog) = 2

(***************************************************************************)
(* The mailer                                                              *)
(***************************************************************************)
\* The SMTP configuration the wizard wrote: the operator chose to configure
\* SMTP, which always yields a host; user and password may be empty.
SmtpWritten == AnswerTo("Configure SMTP settings?") = Yes /\ config.smtpHost # Empty

Called == rt.results # <<>>

ConsoleResult(r) == r.success /\ Len(r.messageId) = 2 /\ r.messageId[1] = "console-"

\* C21: Mailer fallback.  Once sendEmail has been called, SMTP delivery was
\* attempted exactly when an SMTP configuration is found, and a configuration
\* the wizard accepted and wrote (host set, user and password possibly empty)
\* is one; when none is found nothing is sent, every message is logged to
\* the console and every call returns success with a console- message id.
MailerFallback ==
    Called =>
        /\ rt.deliveries # <<>> <=> SmtpWritten
        /\ ~SmtpWritten =>
              /\ rt.deliveries = <<>>
              /\ Len(rt.console) = Len(rt.results)
              /\ \A i \in 1..Len(rt.results) : ConsoleResult(rt.results[i])

(***************************************************************************)
(* The admin bootstrap                                                     *)
(***************************************************************************)
\* The message holds "already exists", "duplicate" or "unique" in some
\* letter case.
NamesDuplicate(message) ==
    LET m == ToLowerCase(message)
    IN  \E w \in {<<"already", SP, "exists">>, <<"duplicate">>, <<"unique">>} :
            \E i \in 1..(Len(m) - Len(w) + 1) : SubSeq(m, i, i + Len(w) - 1) = w

\* The positions in the log of the API calls the n-th call made.
ApiCallsOf(n) == {i \in 1..Len(rt.api) : rt.api[i].call = n}

Resolved(op) == {i \in 1..Len(rt.api) : rt.api[i].op = op /\ rt.api[i].ok}

\* C25: in every call of initAuth createOrganization is attempted iff
\* createUser resolved in that call; when createUser rejects with a message
\* that names a duplicate the call returns normally and attempts no
\* organization; when it rejects with another message the call throws that
\* error; whether createOrganization resolves or rejects the call returns
\* normally; over all calls at most one admin user and at most one
\* organization are created.
AdminBootstrap ==
    /\ \A n \in 1..Len(rt.results) :
          rt.results[n].fn = "initAuth" =>
             LET first == CHOOSE i \in ApiCallsOf(n) : \A j \in ApiCallsOf(n) : i <= j
                 cu    == rt.api[first]
                 orgs  == {i \in ApiCallsOf(n) : rt.api[i].op = "createOrganization"}
             IN  /\ ApiCallsOf(n) # {}
                 /\ cu.op = "createUser"
                 /\ orgs # {} <=> cu.ok
                 /\ Cardinality(ApiCallsOf(n)) = (IF cu.ok THEN 2 ELSE 1)
                 /\ cu.ok => rt.results[n].thrown = NoError
                 /\ ~cu.ok /\ NamesDuplicate(cu.message) => rt.results[n].thrown = NoError
                 /\ ~cu.ok /\ ~NamesDuplicate(cu.message) =>
                       rt.results[n].thrown = [name |-> "APIError", message |-> cu.message]
    /\ Cardinality(rt.users) <= 1
    /\ Cardinality(Resolved("createUser")) = Cardinality(rt.users)
    /\ Cardinality(rt.organizations) <= 1
    /\ Cardinality(Resolved("createOrganization")) = Cardinality(rt.organizations)

\* Three calls of initAuth: the first throws on a locked database, the
\* second creates the admin and fails to create the organization, the third
\* is rejected with the UNIQUE constraint of the database and returns
\* normally: one admin, no organization.
AdminBootstrapWitness ==
    /\ Len(rt.results) = 3
    /\ \A n \in 1..3 : rt.results[n].fn = "initAuth"
    /\ rt.results[1].thrown # NoError
    /\ rt.results[2].thrown = NoError /\ rt.results[3].thrown = NoError
    /\ Len(rt.api) = 4
    /\ rt.api[2].ok /\ ~rt.api[3].ok /\ rt.api[3].op = "createOrganization"
    /\ rt.api[4].message[1] = "UNIQUE"
    /\ Cardinality(rt.users) = 1 /\ rt.organizations = {}

====
